---- MODULE Spec2Model ----
(***************************************************************************)
(* A model of the Ignition provisioning engine: the engine binary          *)
(* (internal/main.go), the disks stage (stage.Run, createFilesystems,      *)
(* createFilesystem, cleanFilesystemExcept), the translator of 2.4 configs *)
(* (v24tov31), the config parser (Parse, ParseCompatibleVersion) and the   *)
(* helpers they use.                                                       *)
(* Each part of the program has its own specification (SpecMain, ...)      *)
(* over the variables it owns; the other variables stay as Init left them. *)
(***************************************************************************)
EXTENDS Integers, Sequences, FiniteSets, TLC

VARIABLES
    \* ---- engine binary (internal/main.go) ----
    flags,      \* the parsed command line
    mpc,        \* position of main / ignitionMain
    fetcherErr, \* error of NewFetcherFunc()(&logger)
    loadErr,    \* error of state.Load
    runErr,     \* error of engine.Run
    exitCode,   \* process exit status (0 unless os.Exit said otherwise)
    mtrace,     \* the calls made so far: Run, Status(err), Save
    \* ---- one call of cleanFilesystemExcept ----
    cfs,        \* the Mount entry that is cleaned
    ctree0,     \* the device's tree before the call
    csys,       \* the device's tree, the scratch mountpoint and the operations issued
    cenv,       \* the failure injected into the call
    cerr,       \* the error returned
    cpc,        \* "call" before, "returned" after
    \* ---- one call of createFilesystem ----
    ffs,        \* the Mount entry
    fdev0,      \* the device before the call
    fsys,       \* the device, the scratch mountpoint and the operations issued
    fenv,       \* the failures injected into the call
    ferr,       \* the error returned
    fpc,        \* "call" before, "returned" after
    \* ---- the disks stage ----
    dcfg,        \* config.Storage: number of disks and raid arrays, the filesystems
    concurrency, \* runtime.GOMAXPROCS(-1)
    dpc,         \* position of stage.Run / createFilesystems
    dsteps,      \* the sub-steps run so far, each with the error it returned
    derr,        \* the error stage.Run returns
    fss,         \* the Mounts createFilesystems works on
    aliasNext,   \* index into devs of the loop of createDeviceAliases
    aliases,     \* the devices that have an alias
    ddisk,       \* the devices: what is on them and the operations issued on them
    work,        \* the work channel: indices into fss, in order
    closed,      \* work has been closed
    sendNext,    \* index into fss of the sending loop
    wk,          \* the workers: position, element in hand, result in hand
    errs,        \* the messages errs so far
    nrecv,       \* number of results received
    dres,        \* what createFilesystem returned for each element of fss
    ncalls,      \* the number of createFilesystem calls made for each element of fss
    \* ---- one call of v24tov31.Translate ----
    tcfg,        \* the legacy config
    tfsMapIn,    \* the fsMap argument: nil or a map
    tfsMap,      \* the caller's map as Check2_4 leaves it
    tenv,        \* what the code outside decides: legacy validation, FSGeneration
    tpc,         \* "Check2_4", "translate", "validate", "returned" or "panicked"
    tres,        \* the types.Config built, then the one returned
    terr,        \* the error returned
    \* ---- one call of RemoveDuplicateFilesUnitsUsers ----
    qcfg,        \* the legacy config passed in
    qres,        \* the config returned
    qerr,        \* the error returned
    qpc,         \* "called", "returned", or "checked" after Check2_4 saw the output
    qchk,        \* how Check2_4 ended on the config returned, and its error
    \* ---- one call of Parse or ParseCompatibleVersion ----
    praw,        \* the raw config: what the decoders and validators find in it
    pfn,         \* the function called
    ppc,         \* position in it
    pcalls,      \* the parsers and translators called so far
    pver,        \* the version of the config in hand
    pres,        \* the config returned
    perr,        \* the error returned
    \* ---- Verification.HashParts and Verification.Validate on one hash ----
    hin,         \* the hash string
    hpc,         \* "call", "parts" after HashParts, "validated" after Validate
    hparts,      \* what HashParts returned: [algo, sum, err]
    hverr,       \* the error in the report of Validate
    \* ---- one call of ibmcloud.FetchConfig ----
    isrc,        \* what the read of the config drive will end with
    ictx,        \* ctx.Err(): "nil", "Canceled" or "DeadlineExceeded"
    idata,       \* the variable data the closure shares with FetchConfig
    ipc,         \* position of FetchConfig
    igo,         \* position of the dispatch goroutine
    iparsed,     \* what was handed to util.ParseConfig: <<>> or <<the bytes>>
    ilog         \* the messages logged so far

mainVars == <<flags, mpc, fetcherErr, loadErr, runErr, exitCode, mtrace>>

cleanVars == <<cfs, ctree0, csys, cenv, cerr, cpc>>

fsVars == <<ffs, fdev0, fsys, fenv, ferr, fpc>>

poolVars == <<work, closed, sendNext, wk, errs, nrecv, dres, ncalls>>

diskVars == <<dcfg, concurrency, dpc, dsteps, derr, fss, aliasNext, aliases, ddisk, poolVars>>

translateVars == <<tcfg, tfsMapIn, tfsMap, tenv, tpc, tres, terr>>

dedupVars == <<qcfg, qres, qerr, qpc, qchk>>

parseVars == <<praw, pfn, ppc, pcalls, pver, pres, perr>>

hashVars == <<hin, hpc, hparts, hverr>>

fetchVars == <<isrc, ictx, idata, ipc, igo, iparsed, ilog>>

configVars == <<translateVars, dedupVars, parseVars, hashVars, fetchVars>>

vars == <<mainVars, cleanVars, fsVars, diskVars, configVars>>

\* What the actions of each part leave alone.
notMain == <<cleanVars, fsVars, diskVars, configVars>>
notClean == <<mainVars, fsVars, diskVars, configVars>>
notFs == <<mainVars, cleanVars, diskVars, configVars>>
notDisks == <<mainVars, cleanVars, fsVars, configVars>>
notTranslate == <<mainVars, cleanVars, fsVars, diskVars, dedupVars, parseVars, hashVars, fetchVars>>
notDedup == <<mainVars, cleanVars, fsVars, diskVars, translateVars, parseVars, hashVars, fetchVars>>
notParse == <<mainVars, cleanVars, fsVars, diskVars, translateVars, dedupVars, hashVars, fetchVars>>
notHash == <<mainVars, cleanVars, fsVars, diskVars, translateVars, dedupVars, parseVars, fetchVars>>
notFetch == <<mainVars, cleanVars, fsVars, diskVars, translateVars, dedupVars, parseVars, hashVars>>

\* The nil error.
Nil == "nil"

(***************************************************************************)
(* internal/main.go: main (the binary that still knows --oem) and          *)
(* ignitionMain (the binary that only knows --platform).                   *)
(***************************************************************************)

PlatformNames == {"", "ec2", "qemu"}
StageNames == {"", "disks", "fetch"}
Entries == {"main", "ignitionMain"}

\* Error values the collaborators of main can return.
FetcherErrs == {Nil, "no session"}
LoadErrs == {Nil, "bad state file"}
RunErrs == {Nil, "stage failed"}
StatusErrs == {Nil, "POST failed"}
SaveErrs == {Nil, "cannot write state"}

\* flag.Parse: every combination of the flags the exit paths depend on.
\* ignitionMain has no --oem flag.
FlagSets ==
    { f \in [entry : Entries, version : BOOLEAN, platform : PlatformNames,
             oem : PlatformNames, stage : StageNames] :
        f.entry = "ignitionMain" => f.oem = "" }

\* The "--platform/--oem must be provided" test of the two binaries.
PlatformMissingOemIgnored(f) == f.platform = ""

PlatformMissing(f) ==
    IF f.entry = "main" THEN f.platform = "" /\ f.oem = ""
    ELSE f.platform = ""

\* os.Exit(code): the process ends at once.
Exit(code) ==
    /\ mpc' = "exited"
    /\ exitCode' = code

\* flag.Parse up to the construction of the logger: --version prints and
\* returns, a missing --platform (or --oem) or --stage exits with 2, and
\* --oem overrides --platform.
CheckFlags ==
    /\ mpc = "checkFlags"
    /\ IF flags.version THEN Exit(0) /\ UNCHANGED flags
       ELSE IF PlatformMissing(flags) THEN Exit(2) /\ UNCHANGED flags
       ELSE IF flags.stage = "" THEN Exit(2) /\ UNCHANGED flags
       ELSE /\ mpc' = "newFetcher"
            /\ flags' = IF flags.oem # "" THEN [flags EXCEPT !.platform = flags.oem]
                        ELSE flags
            /\ UNCHANGED exitCode
    /\ UNCHANGED <<fetcherErr, loadErr, runErr, mtrace>>
    /\ UNCHANGED notMain

\* fetcher, err := platformConfig.NewFetcherFunc()(&logger)
NewFetcher ==
    /\ mpc = "newFetcher"
    /\ \E err \in FetcherErrs :
        /\ fetcherErr' = err
        /\ IF err # Nil THEN Exit(3)
           ELSE mpc' = "loadState" /\ UNCHANGED exitCode
    /\ UNCHANGED <<flags, loadErr, runErr, mtrace>>
    /\ UNCHANGED notMain

\* state, err := state.Load(flags.stateFile)
LoadState ==
    /\ mpc = "loadState"
    /\ \E err \in LoadErrs :
        /\ loadErr' = err
        /\ IF err # Nil THEN Exit(3)
           ELSE mpc' = "run" /\ UNCHANGED exitCode
    /\ UNCHANGED <<flags, fetcherErr, runErr, mtrace>>
    /\ UNCHANGED notMain

\* err = engine.Run(flags.stage.String())
EngineRun ==
    /\ mpc = "run"
    /\ \E err \in RunErrs :
        /\ runErr' = err
        /\ mtrace' = Append(mtrace, [call |-> "Run", stage |-> flags.stage, err |-> err])
    /\ mpc' = "status"
    /\ UNCHANGED <<flags, fetcherErr, loadErr, exitCode>>
    /\ UNCHANGED notMain

\* The error handed to PlatformConfig.Status.
StatusArgDropped(err) == Nil

StatusArg(err) == err

\* engine.PlatformConfig.Status(stage, fetcher, err); its own error is only
\* logged.
PlatformStatus ==
    /\ mpc = "status"
    /\ \E statusErr \in StatusErrs :
        mtrace' = Append(mtrace, [call |-> "Status", stage |-> flags.stage,
                                  arg |-> StatusArg(runErr), err |-> statusErr])
    /\ mpc' = "checkErr"
    /\ UNCHANGED <<flags, fetcherErr, loadErr, runErr, exitCode>>
    /\ UNCHANGED notMain

\* The test that guards the save: if err != nil { os.Exit(1) }
RunFailedIgnored(err) == FALSE

RunFailed(err) == err # Nil

CheckRunErr ==
    /\ mpc = "checkErr"
    /\ IF RunFailed(runErr) THEN Exit(1)
       ELSE mpc' = "save" /\ UNCHANGED exitCode
    /\ UNCHANGED <<flags, fetcherErr, loadErr, runErr, mtrace>>
    /\ UNCHANGED notMain

\* engine.State.Save(flags.stateFile); on success main returns (exit code 0).
StateSave ==
    /\ mpc = "save"
    /\ \E err \in SaveErrs :
        /\ mtrace' = Append(mtrace, [call |-> "Save", err |-> err])
        /\ IF err # Nil THEN Exit(1) ELSE Exit(0)
    /\ UNCHANGED <<flags, fetcherErr, loadErr, runErr>>
    /\ UNCHANGED notMain

\* The variables of the binary in the specifications of the other parts.
IdleMain ==
    /\ flags = [entry |-> "ignitionMain", version |-> FALSE, platform |-> "",
                oem |-> "", stage |-> ""]
    /\ mpc = "idle"
    /\ fetcherErr = Nil
    /\ loadErr = Nil
    /\ runErr = Nil
    /\ exitCode = 0
    /\ mtrace = <<>>

InitMain ==
    /\ flags \in FlagSets
    /\ mpc = "checkFlags"
    /\ fetcherErr = Nil
    /\ loadErr = Nil
    /\ runErr = Nil
    /\ exitCode = 0
    /\ mtrace = <<>>

NextMain ==
    \/ CheckFlags
    \/ NewFetcher
    \/ LoadState
    \/ EngineRun
    \/ PlatformStatus
    \/ CheckRunErr
    \/ StateSave

(***************************************************************************)
(* Strings.  A Go string whose characters matter (a cleanExcept pattern, a *)
(* path, a UUID) is a sequence of one-character strings.                   *)
(***************************************************************************)

\* strings.HasSuffix / strings.TrimSuffix
HasSuffix(s, suf) ==
    /\ Len(s) >= Len(suf)
    /\ SubSeq(s, Len(s) - Len(suf) + 1, Len(s)) = suf

TrimSuffix(s, suf) ==
    IF HasSuffix(s, suf) THEN SubSeq(s, 1, Len(s) - Len(suf)) ELSE s

\* strings.Index: the 0-based position of the leftmost occurrence of sub in
\* s, or -1.
Index(s, sub) ==
    LET hits == { i \in 0..(Len(s) - Len(sub)) : SubSeq(s, i + 1, i + Len(sub)) = sub }
    IN IF hits = {} THEN 0 - 1
       ELSE CHOOSE i \in hits : \A j \in hits : i <= j

\* strings.Replace(s, old, "", 1): the leftmost occurrence of old is cut out.
ReplaceFirstWithEmpty(s, old) ==
    LET i == Index(s, old)
    IN IF i < 0 THEN s
       ELSE SubSeq(s, 1, i) \o SubSeq(s, i + Len(old) + 1, Len(s))

\* strings.Split(s, "/")
RECURSIVE SplitFrom(_, _)
SplitFrom(s, cur) ==
    IF s = <<>> THEN <<cur>>
    ELSE IF Head(s) = "/" THEN <<cur>> \o SplitFrom(Tail(s), <<>>)
    ELSE SplitFrom(Tail(s), Append(cur, Head(s)))

Split(s) == SplitFrom(s, <<>>)

\* filepath.Join(elems...): empty elements are ignored and the rest joined
\* with "/" (the elements here hold no "." or "/", so Clean changes nothing).
RECURSIVE JoinPath(_)
JoinPath(elems) ==
    IF elems = <<>> THEN <<>>
    ELSE LET rest == JoinPath(Tail(elems))
         IN IF Head(elems) = <<>> THEN rest
            ELSE IF rest = <<>> THEN Head(elems)
            ELSE Head(elems) \o <<"/">> \o rest

(***************************************************************************)
(* Regular expressions.  The patterns of the model are literals with       *)
(* optional ( ) groups: regexp.Compile rejects unbalanced parentheses, and *)
(* a compiled pattern matches its text with the parentheses left out.      *)
(***************************************************************************)

RECURSIVE Balanced(_, _)
Balanced(p, depth) ==
    IF p = <<>> THEN depth = 0
    ELSE IF Head(p) = "(" THEN Balanced(Tail(p), depth + 1)
    ELSE IF Head(p) = ")" THEN depth > 0 /\ Balanced(Tail(p), depth - 1)
    ELSE Balanced(Tail(p), depth)

\* regexp.Compile(p) succeeds
Compiles(p) == Balanced(p, 0)

\* The text a compiled pattern matches.
Literal(p) == SelectSeq(p, LAMBDA c : c \notin {"(", ")"})

\* regexKeep.FindStringIndex(s): <<start, end>> of the leftmost match, or <<>>.
FindStringIndex(p, s) ==
    LET i == Index(s, Literal(p))
    IN IF i < 0 THEN <<>> ELSE <<i, i + Len(Literal(p))>>

\* loc != nil && loc[0] == 0 && loc[1] == len(matchPath)
FullMatch(p, s) ==
    LET loc == FindStringIndex(p, s)
    IN loc # <<>> /\ loc[1] = 0 /\ loc[2] = Len(s)

(***************************************************************************)
(* The filesystem on a device: a set of entries [path, dir], path being    *)
(* the sequence of names below the root; every entry's parent is a         *)
(* directory of the tree.                                                  *)
(***************************************************************************)

\* The names of directory entries, in the lexical order ReadDir returns.
Names == <<"a", "b">>

NameSet == { Names[i] : i \in DOMAIN Names }

NameRank(n) == CHOOSE i \in DOMAIN Names : Names[i] = n

\* Bounds of the trees and pattern lists that are explored.
MaxDepth == 2
MaxEntries == 4
MaxPatterns == 2

Paths == UNION { [1..n -> NameSet] : n \in 1..MaxDepth }

Parent(path) == SubSeq(path, 1, Len(path) - 1)

IsPrefix(p, q) == Len(p) <= Len(q) /\ SubSeq(q, 1, Len(p)) = p

\* The entries that can be added to tree t.
Addable(t) ==
    { e \in [path : Paths, dir : BOOLEAN] :
        /\ \A x \in t : x.path # e.path
        /\ Len(e.path) > 1 => [path |-> Parent(e.path), dir |-> TRUE] \in t }

RECURSIVE TreesUpTo(_)
TreesUpTo(n) ==
    IF n = 0 THEN {{}}
    ELSE LET smaller == TreesUpTo(n - 1)
         IN smaller \cup UNION { { t \cup {e} : e \in Addable(t) } : t \in smaller }

Trees == TreesUpTo(MaxEntries)

\* "/a/b" for <<"a", "b">>
RECURSIVE PathString(_)
PathString(path) ==
    IF path = <<>> THEN <<>>
    ELSE <<"/", Head(path)>> \o PathString(Tail(path))

\* The scratch mountpoint ioutil.TempDir returns.
Mnt == <<"/", "t">>

\* The children of a directory as ReadDir lists them: sorted by name.
RECURSIVE SortByName(_)
SortByName(es) ==
    IF es = {} THEN <<>>
    ELSE LET first == CHOOSE e \in es :
                        \A x \in es : NameRank(e.path[Len(e.path)]) <= NameRank(x.path[Len(x.path)])
         IN <<first>> \o SortByName(es \ {first})

ReadDir(tree, path) ==
    SortByName({ e \in tree : Len(e.path) = Len(path) + 1 /\ IsPrefix(path, e.path) })

\* os.RemoveAll(path): the entry and everything beneath it.
RemoveAll(tree, path) == { e \in tree : ~IsPrefix(path, e.path) }

(***************************************************************************)
(* stage.cleanFilesystemExcept (disks/filesystems.go).                     *)
(***************************************************************************)

\* for i := len(parts) - 1; i > 1; i-- { regexp.Compile("/" + filepath.Join(parts[0:i]...)) }
\* The parent patterns of one pattern, in the order they are compiled.
NoParentRegexes(parts, i) == <<>>

RECURSIVE ParentRegexes(_, _)
ParentRegexes(parts, i) ==
    IF i > 1
    THEN <<(<<"/">> \o JoinPath(SubSeq(parts, 1, i)))>> \o ParentRegexes(parts, i - 1)
    ELSE <<>>

\* The mutant of KeepsTopDirectory for which no pattern is the top directory.
KeepsTopDirectoryNever(pathRegex) == FALSE

\* if len(pathRegex) == 0 { return nil }
KeepsTopDirectory(pathRegex) == Len(pathRegex) = 0

\* The loop over fs.CleanExcept: ret is "go on" when every pattern was
\* compiled, Nil when a pattern is empty after its final "/" was dropped
\* (keeping the whole top directory is a no-op), and else the error.
RECURSIVE CompilePatterns(_, _, _)
CompilePatterns(cleanExcept, keep, parents) ==
    IF cleanExcept = <<>> THEN [ret |-> "go on", keep |-> keep, parents |-> parents]
    ELSE
      LET pathRegex == TrimSuffix(Head(cleanExcept), <<"/">>)
          parts == Split(pathRegex)
          pps == ParentRegexes(parts, Len(parts) - 1)
      IN IF KeepsTopDirectory(pathRegex)
            THEN [ret |-> Nil, keep |-> keep, parents |-> parents]
         ELSE IF ~Compiles(pathRegex)
            THEN [ret |-> "regexp: error parsing", keep |-> keep, parents |-> parents]
         ELSE IF \E k \in DOMAIN pps : ~Compiles(pps[k])
            THEN [ret |-> "split regex not valid", keep |-> keep, parents |-> parents]
         ELSE CompilePatterns(Tail(cleanExcept),
                              keep \o <<pathRegex, pathRegex>>, parents \o pps)

\* The function handed to filepath.WalkDir, called for entry e (the walk
\* root is the entry with the empty path).  st holds the tree, the
\* operations issued so far and the number of RemoveAll calls made.
WalkFn(e, st, ctx) ==
    LET path == Mnt \o PathString(e.path)
        matchPath == ReplaceFirstWithEmpty(path, Mnt)
        match == \E k \in DOMAIN ctx.keep : FullMatch(ctx.keep[k], matchPath)
        matchkeepButDontSkip ==
            \E k \in DOMAIN ctx.parents : FullMatch(ctx.parents[k], matchPath)
        removing == [st EXCEPT !.ops = Append(@, [op |-> "RemoveAll", path |-> e.path]),
                               !.removes = @ + 1]
    IN IF matchPath = <<>> THEN [ret |-> Nil, st |-> st]
       ELSE IF match /\ e.dir THEN [ret |-> "SkipDir", st |-> st]
       ELSE IF matchkeepButDontSkip /\ e.dir THEN [ret |-> Nil, st |-> st]
       ELSE IF match THEN [ret |-> Nil, st |-> st]
       ELSE IF st.removes + 1 = ctx.env.failRemove
            THEN [ret |-> "remove failed", st |-> removing]
       ELSE [ret |-> IF e.dir THEN "SkipDir" ELSE Nil,
             st |-> [removing EXCEPT !.tree = RemoveAll(@, e.path)]]

\* filepath.WalkDir: fn is called for the entry; a directory for which fn
\* returned nil is read and its entries are walked in name order; SkipDir
\* from a directory skips it, SkipDir from a non-directory skips the rest of
\* its parent, any other error ends the walk.  A failing ReadDir is reported
\* to fn, which returns the error.
RECURSIVE WalkDirRec(_, _, _), WalkSiblings(_, _, _)
WalkDirRec(e, st, ctx) ==
    LET r == WalkFn(e, st, ctx)
    IN IF r.ret # Nil \/ ~e.dir
       THEN [ret |-> IF r.ret = "SkipDir" /\ e.dir THEN Nil ELSE r.ret, st |-> r.st]
       ELSE LET st1 == [r.st EXCEPT !.reads = @ + 1]
            IN IF st1.reads = ctx.env.failRead
               THEN [ret |-> "readdir failed", st |-> st1]
               ELSE WalkSiblings(ReadDir(st1.tree, e.path), st1, ctx)

WalkSiblings(es, st, ctx) ==
    IF es = <<>> THEN [ret |-> Nil, st |-> st]
    ELSE LET r == WalkDirRec(Head(es), st, ctx)
         IN IF r.ret = Nil THEN WalkSiblings(Tail(es), r.st, ctx)
            ELSE IF r.ret = "SkipDir" THEN [ret |-> Nil, st |-> r.st]
            ELSE r

\* The deferred calls, run when the function returns.  Unmount takes the
\* mount away; os.Remove takes the scratch directory away unless something
\* is still mounted on it.
RunDeferred(d, sys) ==
    LET issued == [sys EXCEPT !.ops = Append(@, [op |-> d, path |-> Mnt])]
    IN IF d = "Unmount" THEN [issued EXCEPT !.mounted = FALSE]
       ELSE [issued EXCEPT !.mntExists = sys.mounted]

\* Deferred calls run last in, first out.
RECURSIVE RunDefersFIFO(_, _)
RunDefersFIFO(defers, sys) ==
    IF defers = <<>> THEN sys
    ELSE RunDefersFIFO(Tail(defers), RunDeferred(Head(defers), sys))

RECURSIVE RunDefers(_, _)
RunDefers(defers, sys) ==
    IF defers = <<>> THEN sys
    ELSE RunDefers(SubSeq(defers, 1, Len(defers) - 1),
                   RunDeferred(defers[Len(defers)], sys))

\* The device path handed to syscall.Mount.
CleanMountDevice(fs) == fs.Device

\* cleanFilesystemExcept(fs) on a system sys = [tree, mounted, mntExists, ops]
\* under the failures env injects; the result is [err, sys].
cleanFilesystemExcept(fs, sys, env) ==
    LET c == CompilePatterns(fs.CleanExcept, <<>>, <<>>)
        ctx == [keep |-> c.keep, parents |-> c.parents, env |-> env]
        made == [sys EXCEPT !.mntExists = TRUE,
                            !.ops = Append(@, [op |-> "TempDir", path |-> Mnt])]
        tried == [made EXCEPT !.ops = Append(@, [op |-> "Mount", path |-> Mnt,
                                                 dev |-> CleanMountDevice(fs),
                                                 format |-> fs.Format])]
        mounted == [tried EXCEPT !.mounted = TRUE]
        w == WalkDirRec([path |-> <<>>, dir |-> TRUE],
                        [tree |-> mounted.tree, ops |-> mounted.ops,
                         removes |-> 0, reads |-> 0], ctx)
        walked == [mounted EXCEPT !.tree = w.st.tree, !.ops = w.st.ops]
    IN IF c.ret # "go on" THEN [err |-> c.ret, sys |-> sys]
       ELSE IF env.tempDirFails
            THEN [err |-> "failed to create temp directory", sys |-> sys]
       ELSE IF env.mountFails
            THEN [err |-> "mount failed", sys |-> RunDefers(<<"Remove">>, tried)]
       ELSE [err |-> w.ret, sys |-> RunDefers(<<"Remove", "Unmount">>, walked)]

(***************************************************************************)
(* SpecClean: cleanFilesystemExcept applied to every tree and pattern list *)
(* within the bounds, under every single injected failure.                 *)
(***************************************************************************)

\* Patterns: the literal paths (those of one name also with a final "/"), the two
\* spellings of the top directory, and patterns that do not compile, as a
\* whole or in a parent part.
Patterns ==
    { PathString(p) : p \in Paths }
      \cup { PathString(p) \o <<"/">> : p \in { q \in Paths : Len(q) = 1 } }
      \cup { <<>>, <<"/">>, <<"/", "(", "a">>, <<"/", "(", "a", "/", "b", ")">> }

PatternLists == UNION { [1..n -> Patterns] : n \in 0..MaxPatterns }

\* At most one injected failure per call.
NoFailure == [tempDirFails |-> FALSE, mountFails |-> FALSE, failRemove |-> 0, failRead |-> 0]

CleanEnvs ==
    {NoFailure, [NoFailure EXCEPT !.tempDirFails = TRUE],
                [NoFailure EXCEPT !.mountFails = TRUE]}
      \cup { [NoFailure EXCEPT !.failRemove = k] : k \in 1..MaxEntries }
      \cup { [NoFailure EXCEPT !.failRead = k] : k \in 1..MaxEntries }

FreshSys(tree) == [tree |-> tree, mounted |-> FALSE, mntExists |-> FALSE, ops |-> <<>>]

CleanCall ==
    /\ cpc = "call"
    /\ \E env \in CleanEnvs :
         LET r == cleanFilesystemExcept(cfs, csys, env)
         IN /\ csys' = r.sys
            /\ cerr' = r.err
            /\ cenv' = env
    /\ cpc' = "returned"
    /\ UNCHANGED <<cfs, ctree0>>
    /\ UNCHANGED notClean

\* The clean variables in the specifications of the other parts.
IdleClean ==
    /\ ctree0 = {}
    /\ csys = FreshSys({})
    /\ cfs = [Device |-> "/dev/sda1", Format |-> "ext4", CleanExcept |-> <<>>]
    /\ cpc = "idle"
    /\ cerr = Nil
    /\ cenv = NoFailure

InitClean ==
    /\ ctree0 \in Trees
    /\ csys = FreshSys(ctree0)
    /\ \E pl \in PatternLists :
         cfs = [Device |-> "/dev/sda1", Format |-> "ext4", CleanExcept |-> pl]
    /\ cpc = "call"
    /\ cerr = Nil
    /\ cenv = NoFailure

NextClean == CleanCall

(***************************************************************************)
(* stage.createFilesystem and its helpers (disks/filesystems.go).          *)
(* A Mount is [Device, Format, Label, UUID, WipeFilesystem, Create,        *)
(* Options, CleanExcept]; the pointers Label, UUID and Create are <<>> when *)
(* nil and <<v>> when they point at v.                                     *)
(***************************************************************************)

ErrBadFilesystem == "filesystem is not of the correct type"

\* strings.ToLower on the characters UUIDs are written with.
LowerChar(c) ==
    CASE c = "A" -> "a" [] c = "B" -> "b" [] c = "C" -> "c"
      [] c = "D" -> "d" [] c = "E" -> "e" [] c = "F" -> "f"
      [] OTHER -> c

ToLower(s) == [i \in DOMAIN s |-> LowerChar(s[i])]

\* canonicalizeFilesystemUUID: lower case, and for vfat the dash at index 4
\* (the fifth character) is dropped.
canonicalizeFilesystemUUID(format, uuid) ==
    LET lower == ToLower(uuid)
    IN IF format = "vfat" /\ Len(lower) >= 5 /\ lower[5] = "-"
       THEN SubSeq(lower, 1, 4) \o SubSeq(lower, 6, Len(lower))
       ELSE lower

\* util.DeviceAlias(path): the alias of a device under /run/ignition/dev_aliases.
DeviceAlias(dev) == "/run/ignition/dev_aliases" \o dev

\* The path readFilesystemInfo hands to util.FilesystemType, FilesystemUUID
\* and FilesystemLabel.
ProbeDevice(fs) == fs.Device

\* readFilesystemInfo(fs): the three lookups in order; the first that fails
\* ends the probe with its error (info is then not looked at).
\* env.probeFails is the number of the failing lookup, 0 for none.
readFilesystemInfo(fs, sys, env) ==
    LET lookups == <<"FilesystemType", "FilesystemUUID", "FilesystemLabel">>
        made == IF env.probeFails = 0 THEN 3 ELSE env.probeFails
        ops == [i \in 1..made |-> [op |-> lookups[i], dev |-> ProbeDevice(fs)]]
    IN [info |-> [format |-> sys.format, uuid |-> sys.uuid, label |-> sys.label],
        err |-> IF env.probeFails = 0 THEN Nil ELSE "probe failed",
        sys |-> [sys EXCEPT !.ops = @ \o ops]]

\* The test that lets an existing filesystem stand.
AlreadyFormattedIgnoringUUID(fs, info) ==
    /\ (info.format = fs.Format \/ info.label = "OEM")
    /\ (fs.Label = <<>> \/ info.label = fs.Label[1])

AlreadyFormatted(fs, info) ==
    /\ (info.format = fs.Format \/ info.label = "OEM")
    /\ (fs.Label = <<>> \/ info.label = fs.Label[1])
    /\ (fs.UUID = <<>> \/
          canonicalizeFilesystemUUID(info.format, info.uuid)
            = canonicalizeFilesystemUUID(fs.Format, fs.UUID[1]))

\* The formats the switch of createFilesystem knows, with the command of each.
MkfsCmd(format) ==
    CASE format = "btrfs" -> "BtrfsMkfsCmd"
      [] format = "ext4" -> "Ext4MkfsCmd"
      [] format = "xfs" -> "XfsMkfsCmd"
      [] format = "swap" -> "SwapMkfsCmd"
      [] format = "vfat" -> "VfatMkfsCmd"
      [] OTHER -> ""

\* The force flag of each command (mkfs.vfat has none).
ForceFlag(format) ==
    CASE format = "btrfs" -> <<"--force">>
      [] format = "ext4" -> <<"-F">>
      [] format \in {"xfs", "swap"} -> <<"-f">>
      [] OTHER -> <<>>

\* The device argument of mkfs.
MkfsDevice(fs) == DeviceAlias(fs.Device)

\* The mkfs invocation: the options (of the create block when there is
\* one), the force flag, the canonical UUID and the label when configured,
\* and the device alias as last argument.
MkfsCommand(fs) ==
    [op |-> "mkfs",
     cmd |-> MkfsCmd(fs.Format),
     options |-> IF fs.Create = <<>> THEN fs.Options ELSE fs.Create[1].Options,
     force |-> ForceFlag(fs.Format),
     uuid |-> IF fs.UUID = <<>> THEN <<>>
              ELSE <<canonicalizeFilesystemUUID(fs.Format, fs.UUID[1])>>,
     label |-> fs.Label,
     dev |-> MkfsDevice(fs)]

\* The UUID mkfs gives a filesystem when none is configured.
FreshUUID == <<"9", "9">>

\* The device after a successful mkfs.
Formatted(fs, sys) ==
    [sys EXCEPT !.format = fs.Format,
                !.uuid = IF fs.UUID = <<>> THEN FreshUUID
                         ELSE canonicalizeFilesystemUUID(fs.Format, fs.UUID[1]),
                !.label = IF fs.Label = <<>> THEN "" ELSE fs.Label[1],
                !.tree = {}]

\* The part of createFilesystem after the checks: the format switch and the
\* mkfs run.
RunMkfs(fs, sys, env) ==
    LET issued == [sys EXCEPT !.ops = Append(@, MkfsCommand(fs))]
    IN IF MkfsCmd(fs.Format) = ""
          THEN [err |-> "unsupported filesystem format", sys |-> sys]
       ELSE IF env.mkfsFails
          THEN [err |-> "mkfs failed", sys |-> issued]
       ELSE [err |-> Nil, sys |-> Formatted(fs, issued)]

\* if !fs.Create.Force && info.format != "" { return ErrBadFilesystem }
LegacyCreateRefusedAlways(fs, info) == info.format # ""

LegacyCreateRefused(fs, info) == ~fs.Create[1].Force /\ info.format # ""

\* The mutant of NeedsClean that cleans whatever the list.
NeedsCleanAlways(fs) == TRUE

\* if len(fs.CleanExcept) > 0 { return s.cleanFilesystemExcept(fs) }
NeedsClean(fs) == Len(fs.CleanExcept) > 0

\* createFilesystem(fs) on the device sys = [format, uuid, label, tree,
\* mounted, mntExists, ops] under the failures of env; the result is
\* [err, sys].
createFilesystem(fs, sys, env) ==
    LET p == readFilesystemInfo(fs, sys, env)
        info == p.info
    IN IF p.err # Nil THEN [err |-> p.err, sys |-> p.sys]
       ELSE IF fs.Create # <<>>
          THEN IF LegacyCreateRefused(fs, info)
               THEN [err |-> ErrBadFilesystem, sys |-> p.sys]
               ELSE RunMkfs(fs, p.sys, env)
       ELSE IF ~fs.WipeFilesystem
          THEN IF AlreadyFormatted(fs, info)
               THEN IF NeedsClean(fs)
                    THEN cleanFilesystemExcept(fs, p.sys, env.clean)
                    ELSE [err |-> Nil, sys |-> p.sys]
               ELSE IF info.format # ""
               THEN [err |-> ErrBadFilesystem, sys |-> p.sys]
               ELSE RunMkfs(fs, p.sys, env)
       ELSE RunMkfs(fs, p.sys, env)

(***************************************************************************)
(* SpecFs: createFilesystem applied to every Mount entry and every probed  *)
(* device of the sets below, under every injected failure.                 *)
(***************************************************************************)

\* The five formats createFilesystem can make, and "none", which the schema
\* admits and createFilesystem has no command for.
Formats == {"btrfs", "ext4", "xfs", "swap", "vfat", "none"}

Labels == {"OEM", "DATA"}

UUIDs == { <<"A", "1", "B", "2", "-", "C", "3">>,
           <<"a", "1", "b", "2", "-", "c", "3">>,
           <<"a", "1", "b", "2", "c", "3">> }

OptionLists == { <<>> }

CreateBlocks == { [Force |-> f, Options |-> <<"-q">>] : f \in BOOLEAN }

Ptr(S) == {<<>>} \cup { <<v>> : v \in S }

Mounts ==
    [Device : {"/dev/sda1"}, Format : Formats, Label : Ptr(Labels),
     UUID : Ptr(UUIDs), WipeFilesystem : BOOLEAN, Create : Ptr(CreateBlocks),
     Options : OptionLists,
     CleanExcept : {<<>>, <<PathString(<<"a">>)>>}]

\* What is on a device: nothing, or a filesystem with a format, a UUID and
\* maybe a label.
SampleTree == { [path |-> <<"a">>, dir |-> FALSE], [path |-> <<"b">>, dir |-> FALSE] }

Devices ==
    { [format |-> "", uuid |-> <<>>, label |-> "", tree |-> {},
       mounted |-> FALSE, mntExists |-> FALSE, ops |-> <<>>] }
      \cup [format : Formats \ {"none"}, uuid : UUIDs, label : Labels \cup {""},
            tree : {SampleTree}, mounted : {FALSE}, mntExists : {FALSE},
            ops : {<<>>}]

FsEnvs ==
    { [probeFails |-> k, mkfsFails |-> FALSE, clean |-> NoFailure] : k \in 0..3 }
      \cup { [probeFails |-> 0, mkfsFails |-> TRUE, clean |-> NoFailure],
             [probeFails |-> 0, mkfsFails |-> FALSE,
              clean |-> [NoFailure EXCEPT !.mountFails = TRUE]] }

CreateFilesystemCall ==
    /\ fpc = "call"
    /\ \E env \in FsEnvs :
         LET r == createFilesystem(ffs, fsys, env)
         IN /\ fsys' = r.sys
            /\ ferr' = r.err
            /\ fenv' = env
    /\ fpc' = "returned"
    /\ UNCHANGED <<ffs, fdev0>>
    /\ UNCHANGED notFs

IdleFs ==
    /\ ffs = [Device |-> "/dev/sda1", Format |-> "ext4", Label |-> <<>>,
              UUID |-> <<>>, WipeFilesystem |-> FALSE, Create |-> <<>>,
              Options |-> <<>>, CleanExcept |-> <<>>]
    /\ fdev0 = [format |-> "", uuid |-> <<>>, label |-> "", tree |-> {},
                mounted |-> FALSE, mntExists |-> FALSE, ops |-> <<>>]
    /\ fsys = fdev0
    /\ fenv = [probeFails |-> 0, mkfsFails |-> FALSE, clean |-> NoFailure]
    /\ ferr = Nil
    /\ fpc = "idle"

InitFs ==
    /\ ffs \in Mounts
    /\ fdev0 \in Devices
    /\ fsys = fdev0
    /\ fenv = [probeFails |-> 0, mkfsFails |-> FALSE, clean |-> NoFailure]
    /\ ferr = Nil
    /\ fpc = "call"

NextFs == CreateFilesystemCall

(***************************************************************************)
(* The disks stage: stage.Run, stage.createFilesystems with its worker     *)
(* pool, and waitOnDevicesAndCreateAliases.                                *)
(* An error of this part is a sequence of message pieces, <<>> being nil.  *)
(***************************************************************************)

NoErr == <<>>

\* fmt.Errorf(prefix + "%v", err)
Errorf(prefix, err) == <<prefix>> \o err

\* strings.Join(errs, "\n")
RECURSIVE Join(_)
Join(elems) ==
    IF elems = <<>> THEN <<>>
    ELSE IF Len(elems) = 1 THEN <<elems[1]>>
    ELSE <<elems[1], "\n">> \o Join(Tail(elems))

\* The fast path of stage.Run: nothing but the implicit root filesystem.
NothingToDoWhateverDisks(config) ==
    /\ config.Raid = 0
    /\ Len(config.Filesystems) = 1

NothingToDo(config) ==
    /\ config.Disks = 0
    /\ config.Raid = 0
    /\ Len(config.Filesystems) = 1

\* fss: the Mount of every filesystem entry that has one, in config order.
FssOf(config) ==
    LET withMount == SelectSeq(config.Filesystems, LAMBDA f : f.Mount # <<>>)
    IN [i \in DOMAIN withMount |-> withMount[i].Mount[1]]

\* The mutant of DevsOf that names the device of the first element only.
DevsOfFirstOnly(mounts) == [i \in 1..1 |-> mounts[i].Device]

\* devs: the device of every element of fss.
DevsOf(mounts) == [i \in DOMAIN mounts |-> mounts[i].Device]

\* Where stage.Run goes after a sub-step returned err.
AfterStepAlways(err, next) == next

AfterStep(err, next) == IF err = NoErr THEN next ELSE "returned"

\* if err := <-results; err != nil { errs = append(errs, err.Error()) }
CollectErrAlways(es, err) == Append(es, err)

CollectErr(es, err) ==
    IF err # Nil THEN Append(es, err) ELSE es

\* The return value of createFilesystems once every result is in.
CombinedError(es) ==
    IF Len(es) > 0 THEN Join(es) ELSE NoErr

\* The configurations the disks stage is run on: the implicit root of the
\* base config ("There is always an implicit root filesystem defined in the
\* base config, so the lowest number of filesystems is 1") followed by up
\* to MaxFilesystems entries of the user's config, each without a Mount or
\* with one of three Mounts, with or without disks and raid arrays.
MaxFilesystems == 3
MaxProcs == 2

PlainMount(dev, format, wipe) ==
    [Device |-> dev, Format |-> format, Label |-> <<>>, UUID |-> <<>>,
     WipeFilesystem |-> wipe, Create |-> <<>>, Options |-> <<>>,
     CleanExcept |-> <<>>]

FilesystemEntries ==
    { [Name |-> "root", Mount |-> <<>>],
      [Name |-> "data", Mount |-> <<PlainMount("/dev/sda1", "xfs", FALSE)>>],
      [Name |-> "keep", Mount |-> <<PlainMount("/dev/sda1", "ext4", FALSE)>>],
      [Name |-> "scratch", Mount |-> <<PlainMount("/dev/sdb1", "ext4", TRUE)>>] }

ImplicitRoot == [Name |-> "root", Mount |-> <<>>]

Configs ==
    [Disks : 0..1, Raid : 0..1,
     Filesystems :
        { <<ImplicitRoot>> \o user :
            user \in UNION { [1..n -> FilesystemEntries] : n \in 0..MaxFilesystems } }]

\* The failures injected into a createFilesystem call of a worker.
PoolEnvs ==
    { [probeFails |-> 0, mkfsFails |-> b, clean |-> NoFailure] : b \in BOOLEAN }

\* stage.Run up to the first sub-step.
Run ==
    /\ dpc = "Run"
    /\ IF NothingToDo(dcfg)
       THEN dpc' = "returned" /\ derr' = NoErr
       ELSE dpc' = "createPartitions" /\ UNCHANGED derr
    /\ UNCHANGED <<dcfg, concurrency, dsteps, fss, aliasNext, aliases, ddisk, poolVars>>
    /\ UNCHANGED notDisks

\* s.createPartitions(config), from its call to its return.
CreatePartitions ==
    /\ dpc = "createPartitions"
    /\ \E err \in {NoErr, <<"sgdisk failed">>} :
        /\ dsteps' = Append(dsteps, [step |-> "createPartitions", err |-> err])
        /\ dpc' = AfterStep(err, "createRaids")
        /\ derr' = IF err = NoErr THEN derr ELSE Errorf("create partitions failed: ", err)
    /\ UNCHANGED <<dcfg, concurrency, fss, aliasNext, aliases, ddisk, poolVars>>
    /\ UNCHANGED notDisks

\* s.createRaids(config), from its call to its return.
CreateRaids ==
    /\ dpc = "createRaids"
    /\ \E err \in {NoErr, <<"mdadm failed">>} :
        /\ dsteps' = Append(dsteps, [step |-> "createRaids", err |-> err])
        /\ dpc' = AfterStep(err, "createFilesystems")
        /\ derr' = IF err = NoErr THEN derr ELSE Errorf("failed to create raids: ", err)
    /\ UNCHANGED <<dcfg, concurrency, fss, aliasNext, aliases, ddisk, poolVars>>
    /\ UNCHANGED notDisks

\* createFilesystems returns err to stage.Run, which returns.
ReturnFromFilesystems(err) ==
    /\ dsteps' = Append(dsteps, [step |-> "createFilesystems returned", err |-> err])
    /\ dpc' = "returned"
    /\ derr' = IF err = NoErr THEN NoErr ELSE Errorf("failed to create filesystems: ", err)

\* s.createFilesystems(config) up to the wait: without a Mount there is
\* nothing to do.
CreateFilesystemsStart ==
    /\ dpc = "createFilesystems"
    /\ fss' = FssOf(dcfg)
    /\ IF Len(FssOf(dcfg)) = 0
       THEN /\ dsteps' = dsteps \o <<[step |-> "createFilesystems", err |-> NoErr],
                                     [step |-> "createFilesystems returned", err |-> NoErr]>>
            /\ dpc' = "returned"
            /\ derr' = NoErr
       ELSE /\ dsteps' = Append(dsteps, [step |-> "createFilesystems", err |-> NoErr])
            /\ dpc' = "waitOnDevices"
            /\ UNCHANGED derr
    /\ UNCHANGED <<dcfg, concurrency, aliasNext, aliases, ddisk, poolVars>>
    /\ UNCHANGED notDisks

\* s.waitOnDevices(devs, "filesystems")
WaitOnDevices ==
    /\ dpc = "waitOnDevices"
    /\ \E err \in {NoErr, <<"device timeout">>} :
        IF err = NoErr
        THEN /\ dsteps' = Append(dsteps, [step |-> "waitOnDevices", err |-> NoErr])
             /\ dpc' = "createDeviceAliases"
             /\ UNCHANGED derr
        ELSE ReturnFromFilesystems(Errorf("failed to wait on filesystems devs: ", err))
    /\ UNCHANGED <<dcfg, concurrency, fss, aliasNext, aliases, ddisk, poolVars>>
    /\ UNCHANGED notDisks

\* One round of the loop of createDeviceAliases: util.CreateDeviceAlias(dev).
CreateDeviceAlias ==
    /\ dpc = "createDeviceAliases"
    /\ LET dev == DevsOf(fss)[aliasNext]
       IN \E err \in {NoErr, <<"symlink failed">>} :
            IF err = NoErr
            THEN /\ aliases' = aliases \cup {dev}
                 /\ aliasNext' = aliasNext + 1
                 /\ dsteps' = Append(dsteps, [step |-> "CreateDeviceAlias", err |-> NoErr])
                 /\ dpc' = IF aliasNext = Len(DevsOf(fss)) THEN "startWorkers" ELSE dpc
                 /\ UNCHANGED derr
            ELSE /\ ReturnFromFilesystems(Errorf("failed to create device alias: ", err))
                 /\ UNCHANGED <<aliases, aliasNext>>
    /\ UNCHANGED <<dcfg, concurrency, fss, ddisk, poolVars>>
    /\ UNCHANGED notDisks

\* The go statements: concurrency workers, each waiting for work.
StartWorkers ==
    /\ dpc = "startWorkers"
    /\ wk' = [w \in 1..concurrency |-> [pc |-> "recv", item |-> 0, res |-> Nil]]
    /\ dpc' = "produce"
    /\ UNCHANGED <<dcfg, concurrency, dsteps, derr, fss, aliasNext, aliases, ddisk,
                   work, closed, sendNext, errs, nrecv, dres, ncalls>>
    /\ UNCHANGED notDisks

\* The mutant of WorkCapacity with a work channel of one element.
WorkCapacityOne(mounts) == 1

\* make(chan types.Mount, len(fss)): the capacity of the work channel.
WorkCapacity(mounts) == Len(mounts)

\* work <- fs: a send blocks while the channel is full.
SendWork ==
    /\ dpc = "produce"
    /\ sendNext <= Len(fss)
    /\ Len(work) < WorkCapacity(fss)
    /\ work' = Append(work, sendNext)
    /\ sendNext' = sendNext + 1
    /\ UNCHANGED <<dcfg, concurrency, dpc, dsteps, derr, fss, aliasNext, aliases, ddisk,
                   closed, wk, errs, nrecv, dres, ncalls>>
    /\ UNCHANGED notDisks

\* close(work)
CloseWork ==
    /\ dpc = "produce"
    /\ sendNext > Len(fss)
    /\ closed' = TRUE
    /\ dpc' = "collect"
    /\ UNCHANGED <<dcfg, concurrency, dsteps, derr, fss, aliasNext, aliases, ddisk,
                   work, sendNext, wk, errs, nrecv, dres, ncalls>>
    /\ UNCHANGED notDisks

\* The mutant of Dequeue that leaves the element in the channel.
DequeueKeeps(ch) == ch

\* What a receive leaves in the channel.
Dequeue(ch) == Tail(ch)

\* for fs := range work: a worker takes the next element.
WorkerReceive(w) ==
    /\ wk[w].pc = "recv"
    /\ work # <<>>
    /\ wk' = [wk EXCEPT ![w] = [pc |-> "create", item |-> Head(work), res |-> Nil]]
    /\ work' = Dequeue(work)
    /\ UNCHANGED <<dcfg, concurrency, dpc, dsteps, derr, fss, aliasNext, aliases, ddisk,
                   closed, sendNext, errs, nrecv, dres, ncalls>>
    /\ UNCHANGED notDisks

\* s.createFilesystem(fs) in a worker.
WorkerCreate(w) ==
    /\ wk[w].pc = "create"
    /\ LET fs == fss[wk[w].item]
       IN \E env \in PoolEnvs :
            LET r == createFilesystem(fs, ddisk[fs.Device], env)
            IN /\ ddisk' = [ddisk EXCEPT ![fs.Device] = r.sys]
               /\ wk' = [wk EXCEPT ![w].pc = "send", ![w].res = r.err]
               /\ dres' = [dres EXCEPT ![wk[w].item] = r.err]
               /\ ncalls' = [ncalls EXCEPT ![wk[w].item] = @ + 1]
    /\ UNCHANGED <<dcfg, concurrency, dpc, dsteps, derr, fss, aliasNext, aliases,
                   work, closed, sendNext, errs, nrecv>>
    /\ UNCHANGED notDisks

\* The range loop of a worker ends when work is closed and drained.
WorkerExit(w) ==
    /\ wk[w].pc = "recv"
    /\ work = <<>>
    /\ closed
    /\ wk' = [wk EXCEPT ![w].pc = "exited"]
    /\ UNCHANGED <<dcfg, concurrency, dpc, dsteps, derr, fss, aliasNext, aliases, ddisk,
                   work, closed, sendNext, errs, nrecv, dres, ncalls>>
    /\ UNCHANGED notDisks

\* results <- err in worker w meets <-results in the collecting loop.
Collect(w) ==
    /\ dpc = "collect"
    /\ nrecv < Len(fss)
    /\ wk[w].pc = "send"
    /\ errs' = CollectErr(errs, wk[w].res)
    /\ nrecv' = nrecv + 1
    /\ wk' = [wk EXCEPT ![w].pc = "recv", ![w].res = Nil]
    /\ UNCHANGED <<dcfg, concurrency, dpc, dsteps, derr, fss, aliasNext, aliases, ddisk,
                   work, closed, sendNext, dres, ncalls>>
    /\ UNCHANGED notDisks

\* The end of createFilesystems after the collecting loop.
ReturnCombined ==
    /\ dpc = "collect"
    /\ nrecv = Len(fss)
    /\ ReturnFromFilesystems(CombinedError(errs))
    /\ UNCHANGED <<dcfg, concurrency, fss, aliasNext, aliases, ddisk, poolVars>>
    /\ UNCHANGED notDisks

NextDisks ==
    \/ Run
    \/ CreatePartitions
    \/ CreateRaids
    \/ CreateFilesystemsStart
    \/ WaitOnDevices
    \/ CreateDeviceAlias
    \/ StartWorkers
    \/ SendWork
    \/ CloseWork
    \/ \E w \in DOMAIN wk : WorkerReceive(w)
    \/ \E w \in DOMAIN wk : WorkerCreate(w)
    \/ \E w \in DOMAIN wk : WorkerExit(w)
    \/ \E w \in DOMAIN wk : Collect(w)
    \/ ReturnCombined

\* The devices of the disks stage before it runs.
InitialDisks ==
    LET blank == [format |-> "", uuid |-> <<>>, label |-> "", tree |-> {},
                  mounted |-> FALSE, mntExists |-> FALSE, ops |-> <<>>]
    IN [d \in {"/dev/sda1", "/dev/sdb1"} |->
          IF d = "/dev/sda1"
          THEN [blank EXCEPT !.format = "xfs",
                             !.uuid = <<"a", "1", "b", "2", "c", "3">>,
                             !.label = "DATA"]
          ELSE blank]

IdleDisks ==
    /\ dcfg = [Disks |-> 0, Raid |-> 0, Filesystems |-> <<ImplicitRoot>>]
    /\ concurrency = 1
    /\ dpc = "idle"
    /\ dsteps = <<>>
    /\ derr = NoErr
    /\ fss = <<>>
    /\ aliasNext = 1
    /\ aliases = {}
    /\ ddisk = InitialDisks
    /\ work = <<>>
    /\ closed = FALSE
    /\ sendNext = 1
    /\ wk = <<>>
    /\ errs = <<>>
    /\ nrecv = 0
    /\ dres = <<>>
    /\ ncalls = <<>>

InitDisks ==
    /\ dcfg \in Configs
    /\ concurrency \in 1..MaxProcs
    /\ dpc = "Run"
    /\ dsteps = <<>>
    /\ derr = NoErr
    /\ fss = <<>>
    /\ aliasNext = 1
    /\ aliases = {}
    /\ ddisk = InitialDisks
    /\ work = <<>>
    /\ closed = FALSE
    /\ sendNext = 1
    /\ wk = <<>>
    /\ errs = <<>>
    /\ nrecv = 0
    /\ dres = [i \in DOMAIN FssOf(dcfg) |-> "pending"]
    /\ ncalls = [i \in DOMAIN FssOf(dcfg) |-> 0]

(***************************************************************************)
(* v24tov31: Check2_4 and Translate.  A legacy config is the record of the *)
(* regions the checks and the translation of storage and systemd read:     *)
(* Filesystems, Files, Directories, Links, Units and the number of         *)
(* networkd units.  The Go strings of this part (paths, formats, options)  *)
(* are sequences, "" being <<>>.  An error of this part is a record with   *)
(* a kind, NoError being nil.                                              *)
(***************************************************************************)

NoError == [kind |-> "nil"]

\* path.Clean: "//" and "." elements dropped, ".." resolved, no final "/".
RECURSIVE CleanElems(_, _, _)
CleanElems(elems, out, rooted) ==
    IF elems = <<>> THEN out
    ELSE LET e == Head(elems)
         IN IF e = <<>> \/ e = <<".">>
            THEN CleanElems(Tail(elems), out, rooted)
            ELSE IF e = <<".", ".">>
            THEN IF out # <<>> /\ out[Len(out)] # <<".", ".">>
                 THEN CleanElems(Tail(elems), SubSeq(out, 1, Len(out) - 1), rooted)
                 ELSE IF rooted
                 THEN CleanElems(Tail(elems), out, rooted)
                 ELSE CleanElems(Tail(elems), Append(out, e), rooted)
            ELSE CleanElems(Tail(elems), Append(out, e), rooted)

PathClean(p) ==
    IF p = <<>> THEN <<".">>
    ELSE LET rooted == p[1] = "/"
             body == JoinPath(CleanElems(Split(p), <<>>, rooted))
         IN IF rooted THEN <<"/">> \o body
            ELSE IF body = <<>> THEN <<".">>
            ELSE body

\* path.Join(elems...): empty elements are ignored, the rest joined with
\* "/" and cleaned; "" when every element is empty.
PathJoin(elems) ==
    LET given == SelectSeq(elems, LAMBDA e : e # <<>>)
    IN IF given = <<>> THEN <<>> ELSE PathClean(JoinPath(given))

\* m[k] of a Go map: the zero value "" for a missing key (and for a nil map).
Lookup(m, k) == IF k \in DOMAIN m THEN m[k] ELSE <<>>

\* m[k] = v
Put(m, k, v) == [x \in DOMAIN m \cup {k} |-> IF x = k THEN v ELSE m[x]]

\* The pointer helpers of the converter's util package: BoolP and StrP give
\* nil for the zero value, the Strict ones always a pointer.
BoolP(b) == IF b THEN <<TRUE>> ELSE <<>>

BoolPStrict(b) == <<b>>

StrP(s) == IF s = <<>> THEN <<>> ELSE <<s>>

\* util.FSGeneration(name, fsMap): the path of a filesystem the map names; a
\* filesystem it does not name gets a generated path put into the map, or
\* the call fails.
GeneratedPath(name) == <<"/", "t", name>>

FSGeneration(name, m, env) ==
    IF name \in DOMAIN m THEN [err |-> NoError, m |-> m]
    ELSE IF env.genFails THEN [err |-> [kind |-> "FSGeneration"], m |-> m]
    ELSE [err |-> NoError, m |-> Put(m, name, GeneratedPath(name))]

\* fmt.Errorf("...: %w", err)
Wrap(msg, err) == [kind |-> "wrapped", msg |-> msg, err |-> err]

\* The loop over cfg.Storage.Filesystems of Check2_4.  fs.Mount.Create is
\* read through fs.Mount without a nil check: an entry without a mount
\* block (one that has only a path) makes the read panic.
RECURSIVE CheckFilesystems(_, _, _)
CheckFilesystems(fsl, m, env) ==
    IF fsl = <<>> THEN [out |-> "ok", err |-> NoError, m |-> m]
    ELSE LET fs == Head(fsl)
             g == FSGeneration(fs.Name, m, env)
         IN IF g.err # NoError
            THEN [out |-> "error",
                  err |-> Wrap("generating filesystem path and name: ", g.err),
                  m |-> g.m]
            ELSE IF fs.Mount = <<>>
            THEN [out |-> "panic", err |-> NoError, m |-> g.m]
            ELSE IF fs.Mount[1].Create # <<>> /\ ~fs.Mount[1].Create[1].Force
            THEN [out |-> "error", err |-> [kind |-> "CreateWithoutForce"], m |-> g.m]
            ELSE CheckFilesystems(Tail(fsl), g.m, env)

\* pathString := path.Join("/", fsMap[n.Filesystem], n.Path)
PathStringOf(m, n) == PathJoin(<< <<"/">>, Lookup(m, n.Filesystem), n.Path >>)

\* name := fmt.Sprintf("File: %s", pathString)
EntryName(kind, pathString) == <<kind>> \o pathString

\* util.CheckPathUsesLink(links, path): the first of links that is a proper
\* path prefix of path, or "".
ProperPathPrefix(l, p) ==
    LET lelems == SelectSeq(Split(l), LAMBDA e : e # <<>>)
        pelems == SelectSeq(Split(p), LAMBDA e : e # <<>>)
    IN /\ l # p
       /\ Len(lelems) < Len(pelems)
       /\ SubSeq(pelems, 1, Len(lelems)) = lelems

RECURSIVE CheckPathUsesLink(_, _)
CheckPathUsesLink(links, p) ==
    IF links = <<>> THEN <<>>
    ELSE IF ProperPathPrefix(Head(links), p) THEN Head(links)
    ELSE CheckPathUsesLink(Tail(links), p)

DuplicateInodeError(old, new, pointer) ==
    [kind |-> "DuplicateInodeError", Old |-> old, New |-> new, pointer |-> pointer]

UsesOwnLinkError(l, name) ==
    [kind |-> "UsesOwnLinkError", LinkPath |-> l, Name |-> name]

\* One of the three loops of Check2_4 over files, directories or links:
\* the first error, or the entryMap with the entries of the loop added.
RECURSIVE CheckNodes(_, _, _, _, _)
CheckNodes(nodes, kind, entryMap, links, m) ==
    IF nodes = <<>> THEN [err |-> NoError, entryMap |-> entryMap]
    ELSE LET pathString == PathStringOf(m, Head(nodes))
             name == EntryName(kind, pathString)
             l == CheckPathUsesLink(links, pathString)
         IN IF pathString \in DOMAIN entryMap
            THEN [err |-> DuplicateInodeError(entryMap[pathString], name, kind = "Link: "),
                  entryMap |-> entryMap]
            ELSE IF l # <<>>
            THEN [err |-> UsesOwnLinkError(l, name), entryMap |-> entryMap]
            ELSE CheckNodes(Tail(nodes), kind, Put(entryMap, pathString, name), links, m)

\* Lines 63-115: the links written, then files, directories and links.
CheckInodes(cfg, m) ==
    LET links == [i \in DOMAIN cfg.Links |-> PathStringOf(m, cfg.Links[i])]
        files == CheckNodes(cfg.Files, "File: ", <<>>, links, m)
        dirs == CheckNodes(cfg.Directories, "Directory: ", files.entryMap, links, m)
        lnks == CheckNodes(cfg.Links, "Link: ", dirs.entryMap, links, m)
    IN IF files.err # NoError THEN files.err
       ELSE IF dirs.err # NoError THEN dirs.err
       ELSE lnks.err

\* Lines 125-131: the dropins of one unit.
RECURSIVE CheckDropins(_, _, _)
CheckDropins(unit, dropins, dropinMap) ==
    IF dropins = <<>> THEN NoError
    ELSE IF Head(dropins).Name \in dropinMap
    THEN [kind |-> "DuplicateDropinError", Unit |-> unit, Name |-> Head(dropins).Name]
    ELSE CheckDropins(unit, Tail(dropins), dropinMap \cup {Head(dropins).Name})

\* Lines 117-132: the systemd units.
RECURSIVE CheckUnits(_, _)
CheckUnits(units, unitMap) ==
    IF units = <<>> THEN NoError
    ELSE LET unit == Head(units)
         IN IF unit.Name \in unitMap
            THEN [kind |-> "DuplicateUnitError", Name |-> unit.Name]
            ELSE LET d == CheckDropins(unit.Name, unit.Dropins, {})
                 IN IF d # NoError THEN d
                    ELSE CheckUnits(Tail(units), unitMap \cup {unit.Name})

\* Check2_4(cfg, fsMap).  fsMap is [nil, m]: a nil map is replaced by a map
\* of Check2_4's own, any other map is the caller's and keeps what is put
\* into it.  The result: how the call ends, the error, and the map the
\* checks worked on.
Check2_4(cfg, fsMap, env) ==
    LET own == IF fsMap.nil THEN <<>> ELSE fsMap.m
        rooted == Put(own, "root", <<"/">>)
        fs == CheckFilesystems(cfg.Filesystems, rooted, env)
        inodes == CheckInodes(cfg, fs.m)
        units == CheckUnits(cfg.Units, {})
    IN IF env.legacy # "valid"
       THEN [out |-> "error", err |-> [kind |-> "InvalidInputConfig"], m |-> own]
       ELSE IF cfg.Networkd # 0
       THEN [out |-> "error", err |-> [kind |-> "UsesNetworkdError"], m |-> own]
       ELSE IF fs.out # "ok" THEN fs
       ELSE IF inodes # NoError THEN [out |-> "error", err |-> inodes, m |-> fs.m]
       ELSE IF units # NoError THEN [out |-> "error", err |-> units, m |-> fs.m]
       ELSE [out |-> "ok", err |-> NoError, m |-> fs.m]

\* The caller's map after Check2_4: a nil map stays nil.
CallerMap(fsMap, checked) ==
    IF fsMap.nil THEN fsMap ELSE [nil |-> FALSE, m |-> checked.m]

\* translateUnits: the enabled field of one unit.
EnabledOfEnableWins(u) ==
    IF u.Enable THEN BoolP(TRUE)
    ELSE IF u.Enabled # <<>> THEN BoolPStrict(u.Enabled[1])
    ELSE <<>>

EnabledOf(u) ==
    LET first == IF (u.Enabled # <<>> /\ u.Enabled[1]) \/ u.Enable
                 THEN BoolP(TRUE) ELSE <<>>
    IN IF u.Enabled # <<>> /\ ~u.Enabled[1] THEN BoolPStrict(FALSE) ELSE first

translateDropins(dropins) ==
    [i \in DOMAIN dropins |-> [Name |-> dropins[i].Name]]

translateUnits(units) ==
    [i \in DOMAIN units |->
        [Name |-> units[i].Name,
         Enabled |-> EnabledOf(units[i]),
         Dropins |-> translateDropins(units[i].Dropins)]]

\* translateFilesystems: the format of one entry, given its wipe.
FormatOfOemAlwaysBtrfs(name, wipe, format) ==
    IF name = "oem" THEN <<"btrfs">> ELSE format

FormatOf(name, wipe, format) ==
    IF name = "oem" /\ (wipe = <<>> \/ ~wipe[1]) THEN <<"btrfs">> ELSE format

\* The types.Filesystem of one legacy entry that is not root.
translateFilesystem(f, m) ==
    LET mount == IF f.Mount = <<>>
                 THEN [Device |-> <<>>, Format |-> <<>>, WipeFilesystem |-> FALSE,
                       Options |-> <<>>, Create |-> <<>>, Label |-> <<>>, UUID |-> <<>>]
                 ELSE f.Mount[1]
        wipe == IF mount.Create # <<>> THEN BoolP(mount.Create[1].Force)
                ELSE BoolP(mount.WipeFilesystem)
        options == IF mount.Create # <<>> THEN mount.Options \o mount.Create[1].Options
                   ELSE mount.Options
    IN [Device |-> mount.Device,
        Format |-> StrP(FormatOf(f.Name, wipe, mount.Format)),
        WipeFilesystem |-> wipe,
        Label |-> mount.Label,
        UUID |-> mount.UUID,
        Options |-> options,
        Path |-> StrP(Lookup(m, f.Name))]

translateFilesystems(fsl, m) ==
    LET kept == SelectSeq(fsl, LAMBDA f : f.Name # "root")
    IN [i \in DOMAIN kept |-> translateFilesystem(kept[i], m)]

\* translateNode: Path: path.Join(m[n.Filesystem], n.Path)
translateNodePath(n, m) == PathJoin(<< Lookup(m, n.Filesystem), n.Path >>)

\* translateFiles: 2.x files overwrite by default, and never when they append.
translateFiles(files, m) ==
    [i \in DOMAIN files |->
        [Path |-> translateNodePath(files[i], m),
         Overwrite |-> IF files[i].Append THEN BoolPStrict(FALSE) ELSE BoolP(TRUE),
         Append |-> files[i].Append]]

translateDirectories(dirs, m) ==
    [i \in DOMAIN dirs |-> [Path |-> translateNodePath(dirs[i], m)]]

translateLinks(links, m) ==
    [i \in DOMAIN links |-> [Path |-> translateNodePath(links[i], m)]]

\* types.Config{}
ZeroConfig ==
    [Version |-> "", Units |-> <<>>, Filesystems |-> <<>>, Files |-> <<>>,
     Directories |-> <<>>, Links |-> <<>>]

\* res := types.Config{...} of Translate; m is the fsMap Translate was given
\* (nothing is found in a nil map).
BuildConfig(cfg, fsMap) ==
    LET m == IF fsMap.nil THEN <<>> ELSE fsMap.m
    IN [Version |-> "3.1.0",
        Units |-> translateUnits(cfg.Units),
        Filesystems |-> translateFilesystems(cfg.Filesystems, m),
        Files |-> translateFiles(cfg.Files, m),
        Directories |-> translateDirectories(cfg.Directories, m),
        Links |-> translateLinks(cfg.Links, m)]

\* validate.ValidateWithContext(res, nil).IsFatal(): the invariants of a
\* validated current-schema config that the regions of the model can break.
NoRepeat(seq) == \A i, j \in DOMAIN seq : seq[i] = seq[j] => i = j

Absolute(p) == p # <<>> /\ p[1] = "/"

CurrentFormats == {<<"btrfs">>, <<"ext4">>, <<"xfs">>, <<"swap">>, <<"vfat">>, <<"none">>}

IsFatal(res) ==
    LET inodes == [i \in DOMAIN res.Files |-> res.Files[i].Path]
                  \o [i \in DOMAIN res.Directories |-> res.Directories[i].Path]
                  \o [i \in DOMAIN res.Links |-> res.Links[i].Path]
    IN \/ ~NoRepeat(inodes)
       \/ \E i \in DOMAIN inodes : ~Absolute(inodes[i])
       \/ \E i \in DOMAIN res.Files :
             res.Files[i].Append /\ res.Files[i].Overwrite = <<TRUE>>
       \/ ~NoRepeat([i \in DOMAIN res.Units |-> res.Units[i].Name])
       \/ \E i \in DOMAIN res.Units :
             ~NoRepeat([j \in DOMAIN res.Units[i].Dropins |-> res.Units[i].Dropins[j].Name])
       \/ \E i \in DOMAIN res.Filesystems :
             \/ res.Filesystems[i].Device = <<>>
             \/ /\ res.Filesystems[i].Format # <<>>
                /\ res.Filesystems[i].Format[1] \notin CurrentFormats
             \/ /\ res.Filesystems[i].Path # <<>>
                /\ ~Absolute(res.Filesystems[i].Path[1])

\* The two returns after validate.ValidateWithContext(res, nil).
Validated(res) ==
    IF IsFatal(res)
    THEN [out |-> "error", cfg |-> ZeroConfig, err |-> [kind |-> "FatalReport"]]
    ELSE [out |-> "ok", cfg |-> res, err |-> NoError]

\* Translate after Check2_4 gave checked: a panic, the error with the zero
\* config, or the validated config.
Translated(cfg, fsMap, checked) ==
    CASE checked.out = "panic" ->
           [out |-> "panic", cfg |-> ZeroConfig, err |-> NoError]
      [] checked.out = "error" ->
           [out |-> "error", cfg |-> ZeroConfig, err |-> checked.err]
      [] checked.out = "ok" ->
           Validated(BuildConfig(cfg, CallerMap(fsMap, checked)))

\* Translate as its callers see it.
Translate(cfg, fsMap, env) == Translated(cfg, fsMap, Check2_4(cfg, fsMap, env))

\* Translate up to the return of Check2_4: an error is returned with the
\* zero config, a panic ends the call without any return.
TranslateCheck ==
    /\ tpc = "Check2_4"
    /\ LET checked == Check2_4(tcfg, tfsMapIn, tenv)
       IN /\ tfsMap' = CallerMap(tfsMapIn, checked)
          /\ tpc' = CASE checked.out = "ok" -> "translate"
                      [] checked.out = "error" -> "returned"
                      [] checked.out = "panic" -> "panicked"
          /\ terr' = checked.err
    /\ UNCHANGED <<tcfg, tfsMapIn, tenv, tres>>
    /\ UNCHANGED notTranslate

\* res := types.Config{...}
TranslateBuild ==
    /\ tpc = "translate"
    /\ tres' = BuildConfig(tcfg, tfsMap)
    /\ tpc' = "validate"
    /\ UNCHANGED <<tcfg, tfsMapIn, tfsMap, tenv, terr>>
    /\ UNCHANGED notTranslate

\* r := validate.ValidateWithContext(res, nil) and the two returns after it.
TranslateValidate ==
    /\ tpc = "validate"
    /\ IF IsFatal(tres)
       THEN tres' = ZeroConfig /\ terr' = [kind |-> "FatalReport"]
       ELSE UNCHANGED tres /\ terr' = NoError
    /\ tpc' = "returned"
    /\ UNCHANGED <<tcfg, tfsMapIn, tfsMap, tenv>>
    /\ UNCHANGED notTranslate

NextTranslate ==
    \/ TranslateCheck
    \/ TranslateBuild
    \/ TranslateValidate

\* The legacy configs Translate is run on.  MaxInodes bounds the files,
\* directories and links of a config taken together, MaxLegacyFilesystems
\* its filesystems and MaxUnits its units.
MaxInodes == 3
MaxLegacyFilesystems == 2
MaxUnits == 2

LegacyMount(format, wipe, options, create) ==
    [Device |-> <<"/dev/sdb1">>, Format |-> <<format>>, WipeFilesystem |-> wipe,
     Options |-> options, Create |-> create, Label |-> <<>>, UUID |-> <<>>]

LegacyCreate(force) == [Force |-> force, Options |-> <<"-c">>]

LegacyFilesystems ==
    { [Name |-> "root", Mount |-> <<>>],
      [Name |-> "root", Mount |-> <<LegacyMount("btrfs", TRUE, <<>>, <<>>)>>],
      [Name |-> "data", Mount |-> <<>>],
      [Name |-> "data", Mount |-> <<LegacyMount("ext4", FALSE, <<"-m">>, <<>>)>>],
      [Name |-> "data",
       Mount |-> <<LegacyMount("xfs", FALSE, <<"-m">>, <<LegacyCreate(TRUE)>>)>>],
      [Name |-> "data",
       Mount |-> <<LegacyMount("xfs", FALSE, <<>>, <<LegacyCreate(FALSE)>>)>>],
      [Name |-> "oem", Mount |-> <<LegacyMount("ext4", FALSE, <<>>, <<>>)>>],
      [Name |-> "oem", Mount |-> <<LegacyMount("ext4", TRUE, <<>>, <<>>)>>] }

LegacyFiles ==
    { [Filesystem |-> "root", Path |-> <<"/", "a">>, Append |-> FALSE],
      [Filesystem |-> "root", Path |-> <<"/", "a", "/">>, Append |-> FALSE],
      [Filesystem |-> "root", Path |-> <<"/", "l", "/", "x">>, Append |-> FALSE],
      [Filesystem |-> "root", Path |-> <<"/", "b">>, Append |-> TRUE],
      [Filesystem |-> "data", Path |-> <<"/", "a">>, Append |-> FALSE] }

LegacyDirectories ==
    { [Filesystem |-> "root", Path |-> p] :
        p \in { <<"/", "a">>, <<"/", "l">>, <<"/", "l", "/", "x">> } }

LegacyLinks ==
    { [Filesystem |-> "root", Path |-> p] :
        p \in { <<"/", "l">>, <<"/", "l", "/", "x">>, <<"/", "a">> } }

LegacyUnits ==
    { [Name |-> "u", Enable |-> e, Enabled |-> en, Dropins |-> <<>>] :
        e \in BOOLEAN, en \in {<<>>, <<TRUE>>, <<FALSE>>} }
    \cup
    { [Name |-> "v", Enable |-> FALSE, Enabled |-> <<>>, Dropins |-> d] :
        d \in { << [Name |-> "d"], [Name |-> "d"] >>,
                << [Name |-> "d"], [Name |-> "e"] >> } }

SeqsUpTo(S, n) == UNION { [1..k -> S] : k \in 0..n }

LegacyConfig(fsl, files, dirs, links, units, networkd) ==
    [Filesystems |-> fsl, Files |-> files, Directories |-> dirs, Links |-> links,
     Units |-> units, Networkd |-> networkd]

\* Configs that differ in their files, directories and links.
InodeConfigs ==
    UNION { UNION { UNION {
        { LegacyConfig(fsl, f, d, l, <<>>, 0) :
            fsl \in { <<>>,
                      << [Name |-> "data",
                          Mount |-> <<LegacyMount("ext4", FALSE, <<"-m">>, <<>>)>>] >>,
                      << [Name |-> "data", Mount |-> <<>>] >> },
            f \in [1..a -> LegacyFiles],
            d \in [1..b -> LegacyDirectories],
            l \in [1..c -> LegacyLinks] }
        : c \in 0..(MaxInodes - a - b) }
        : b \in 0..(MaxInodes - a) }
        : a \in 0..MaxInodes }

\* Configs that differ in their filesystems, in their units, or have
\* networkd units.
FilesystemConfigs ==
    { LegacyConfig(fsl, <<>>, <<>>, <<>>, <<>>, 0) :
        fsl \in SeqsUpTo(LegacyFilesystems, MaxLegacyFilesystems) }

UnitConfigs ==
    { LegacyConfig(<<>>, <<>>, <<>>, <<>>, units, networkd) :
        units \in SeqsUpTo(LegacyUnits, MaxUnits), networkd \in 0..1 }

LegacyConfigs == InodeConfigs \cup FilesystemConfigs \cup UnitConfigs

\* The fsMap arguments: nil, empty, one that names data and oem, one that
\* puts data on "/", one that names root.
FsMaps ==
    { [nil |-> TRUE, m |-> <<>>],
      [nil |-> FALSE, m |-> <<>>],
      [nil |-> FALSE, m |-> ("data" :> <<"/", "m">>) @@ ("oem" :> <<"/", "o">>)],
      [nil |-> FALSE, m |-> ("data" :> <<"/">>)],
      [nil |-> FALSE, m |-> ("root" :> <<"/", "m">>)] }

\* What legacy validation reports and whether FSGeneration fails.
TranslateEnvs ==
    { [legacy |-> "valid", genFails |-> FALSE],
      [legacy |-> "valid", genFails |-> TRUE],
      [legacy |-> "fatal", genFails |-> FALSE],
      [legacy |-> "deprecated", genFails |-> FALSE] }

IdleTranslate ==
    /\ tcfg = LegacyConfig(<<>>, <<>>, <<>>, <<>>, <<>>, 0)
    /\ tfsMapIn = [nil |-> TRUE, m |-> <<>>]
    /\ tfsMap = [nil |-> TRUE, m |-> <<>>]
    /\ tenv = [legacy |-> "valid", genFails |-> FALSE]
    /\ tpc = "idle"
    /\ tres = ZeroConfig
    /\ terr = NoError

InitTranslate ==
    /\ tcfg \in LegacyConfigs
    /\ tfsMapIn \in FsMaps
    /\ tfsMap = tfsMapIn
    /\ tenv \in TranslateEnvs
    /\ tpc = "Check2_4"
    /\ tres = ZeroConfig
    /\ terr = NoError

(***************************************************************************)
(* v24tov31.RemoveDuplicateFilesUnitsUsers: the helper that removes        *)
(* duplicated files, units and users from a 2.x config.                    *)
(***************************************************************************)

\* The bound on the length of each list of the helper's input.
MaxDedup == 3

\* old.Config{}: the config the helper returns with an error.
ZeroLegacyConfig == [Version |-> "", Files |-> <<>>, Units |-> <<>>, Users |-> <<>>]

\* The mutant of DedupOrder that ranges from the lowest index to the highest.
DedupOrderAscending(n) == [k \in 1..n |-> k]

\* "for i := len(list) - 1; i >= 0; i--": the indices in the order the three
\* loops visit them, from the highest to the lowest.
DedupOrder(n) == [k \in 1..n |-> n + 1 - k]

\* The files loop at step k of the order: seen is filePathMap, out is outFiles.
RECURSIVE DedupFiles(_, _, _, _, _)
DedupFiles(files, order, k, seen, out) ==
    IF k > Len(order) THEN [err |-> NoError, out |-> out]
    ELSE LET f == files[order[k]] IN
         IF f.Filesystem # "root"
         THEN [err |-> [kind |-> "NonRootFilesystem"], out |-> <<>>]
         ELSE IF f.Append
         THEN [err |-> [kind |-> "Appendices"], out |-> <<>>]
         ELSE IF f.Path \in seen
         THEN DedupFiles(files, order, k + 1, seen, out)
         ELSE DedupFiles(files, order, k + 1, seen \cup {f.Path}, Append(out, f))

\* The mutant of HasExistingDropin that never finds the name.
HasExistingDropinNever(existing, name) == FALSE

\* hasExistingDropin: some dropin of the kept unit already has the name.
HasExistingDropin(existing, name) ==
    \E x \in DOMAIN existing : existing[x].Name = name

\* The loop over units[i].Dropins: a new dropin is appended to the kept unit's
\* list unless the list, as it is by then, has a dropin of the same name.
RECURSIVE MergeDropins(_, _, _)
MergeDropins(existing, new, n) ==
    IF n > Len(new) THEN existing
    ELSE MergeDropins(IF HasExistingDropin(existing, new[n].Name)
                      THEN existing
                      ELSE Append(existing, new[n]),
                      new, n + 1)

\* The units loop: seen is unitNameMap, out is outUnits.
RECURSIVE DedupUnits(_, _, _, _, _)
DedupUnits(units, order, k, seen, out) ==
    IF k > Len(order) THEN out
    ELSE LET u == units[order[k]] IN
         IF u.Name \in seen
         THEN DedupUnits(units, order, k + 1, seen,
                  IF Len(u.Dropins) > 0
                  THEN [j \in DOMAIN out |->
                          IF out[j].Name = u.Name
                          THEN [out[j] EXCEPT
                                  !.Dropins = MergeDropins(@, u.Dropins, 1)]
                          ELSE out[j]]
                  ELSE out)
         ELSE DedupUnits(units, order, k + 1, seen \cup {u.Name}, Append(out, u))

\* The users loop: seen is userNameMap, out is outUsers.
RECURSIVE DedupUsers(_, _, _, _, _)
DedupUsers(users, order, k, seen, out) ==
    IF k > Len(order) THEN out
    ELSE LET u == users[order[k]] IN
         IF u.Name \in seen
         THEN DedupUsers(users, order, k + 1, seen,
                  [j \in DOMAIN out |->
                     IF out[j].Name = u.Name
                     THEN [out[j] EXCEPT
                             !.SSHAuthorizedKeys = @ \o u.SSHAuthorizedKeys]
                     ELSE out[j]])
         ELSE DedupUsers(users, order, k + 1, seen \cup {u.Name}, Append(out, u))

\* The helper: the config and the error it returns.
RemoveDuplicateFilesUnitsUsers(cfg) ==
    LET files == DedupFiles(cfg.Files, DedupOrder(Len(cfg.Files)), 1, {}, <<>>)
    IN  IF files.err # NoError
        THEN [cfg |-> ZeroLegacyConfig, err |-> files.err]
        ELSE [cfg |-> [cfg EXCEPT
                 !.Files = files.out,
                 !.Units = DedupUnits(cfg.Units, DedupOrder(Len(cfg.Units)),
                                      1, {}, <<>>),
                 !.Users = DedupUsers(cfg.Users, DedupOrder(Len(cfg.Users)),
                                      1, {}, <<>>)],
              err |-> NoError]

\* One call of the helper.
DedupCall ==
    /\ qpc = "called"
    /\ LET r == RemoveDuplicateFilesUnitsUsers(qcfg)
       IN  /\ qres' = r.cfg
           /\ qerr' = r.err
    /\ qpc' = "returned"
    /\ UNCHANGED <<qcfg, qchk>>
    /\ UNCHANGED notDedup

\* The config the helper returned, as Check2_4 reads it: the helper is for
\* configs "sanitized before translation".
LegacyOf(cfg) == LegacyConfig(<<>>, cfg.Files, <<>>, <<>>, cfg.Units, 0)

\* Check2_4 on the config the helper returned, with an empty fsMap.
CheckDeduplicated ==
    /\ qpc = "returned"
    /\ qerr = NoError
    /\ LET checked == Check2_4(LegacyOf(qres), [nil |-> FALSE, m |-> <<>>],
                               [legacy |-> "valid", genFails |-> FALSE])
       IN  qchk' = [out |-> checked.out, err |-> checked.err]
    /\ qpc' = "checked"
    /\ UNCHANGED <<qcfg, qres, qerr>>
    /\ UNCHANGED notDedup

NextDedup ==
    \/ DedupCall
    \/ CheckDeduplicated

\* The inputs of the helper.
DedupFileSamples ==
    { [Filesystem |-> "root", Path |-> p, Append |-> FALSE, Contents |-> c] :
        p \in { <<"/", "a">>, <<"/", "b">> }, c \in {"x", "y"} }
    \cup
    { [Filesystem |-> "root", Path |-> <<"/", "a", "/">>, Append |-> FALSE,
       Contents |-> "x"],
      [Filesystem |-> "data", Path |-> <<"/", "a">>, Append |-> FALSE,
       Contents |-> "x"],
      [Filesystem |-> "root", Path |-> <<"/", "a">>, Append |-> TRUE,
       Contents |-> "x"] }

DedupDropinLists ==
    { <<>>,
      << [Name |-> "d", Contents |-> "x"] >>,
      << [Name |-> "d", Contents |-> "y"], [Name |-> "e", Contents |-> "x"] >>,
      << [Name |-> "e", Contents |-> "y"], [Name |-> "e", Contents |-> "z"] >> }

DedupUnitSamples ==
    { [Name |-> "u", Contents |-> "x", Dropins |-> d] : d \in DedupDropinLists }
    \cup
    { [Name |-> "u", Contents |-> "y", Dropins |-> <<>>],
      [Name |-> "u", Contents |-> "y",
       Dropins |-> << [Name |-> "d", Contents |-> "x"] >>],
      [Name |-> "v", Contents |-> "x", Dropins |-> <<>>],
      [Name |-> "v", Contents |-> "x",
       Dropins |-> << [Name |-> "e", Contents |-> "y"],
                      [Name |-> "e", Contents |-> "z"] >>] }

DedupUserSamples ==
    { [Name |-> "core", Uid |-> 1, SSHAuthorizedKeys |-> k] :
        k \in { <<>>, <<"k1">>, <<"k2", "k1">> } }
    \cup
    { [Name |-> "core", Uid |-> 2, SSHAuthorizedKeys |-> <<"k1">>],
      [Name |-> "adm", Uid |-> 1, SSHAuthorizedKeys |-> <<>>],
      [Name |-> "adm", Uid |-> 1, SSHAuthorizedKeys |-> <<"k1">>] }

DedupConfigs ==
    LET files == << [Filesystem |-> "root", Path |-> <<"/", "a">>, Append |-> FALSE,
                     Contents |-> "x"],
                    [Filesystem |-> "root", Path |-> <<"/", "a">>, Append |-> FALSE,
                     Contents |-> "y"] >>
        units == << [Name |-> "u", Contents |-> "x",
                     Dropins |-> << [Name |-> "d", Contents |-> "x"] >>],
                    [Name |-> "u", Contents |-> "y",
                     Dropins |-> << [Name |-> "e", Contents |-> "y"] >>] >>
        users == << [Name |-> "core", Uid |-> 1, SSHAuthorizedKeys |-> <<"k1">>],
                    [Name |-> "core", Uid |-> 2, SSHAuthorizedKeys |-> <<"k2">>] >>
    IN  { [Version |-> "2.3.0", Files |-> f, Units |-> units, Users |-> users] :
            f \in SeqsUpTo(DedupFileSamples, MaxDedup) }
        \cup
        { [Version |-> "2.3.0", Files |-> files, Units |-> u, Users |-> users] :
            u \in SeqsUpTo(DedupUnitSamples, MaxDedup) }
        \cup
        { [Version |-> "2.3.0", Files |-> files, Units |-> units, Users |-> u] :
            u \in SeqsUpTo(DedupUserSamples, MaxDedup) }

IdleDedup ==
    /\ qcfg = ZeroLegacyConfig
    /\ qres = ZeroLegacyConfig
    /\ qerr = NoError
    /\ qpc = "idle"
    /\ qchk = [out |-> "none", err |-> NoError]

InitDedup ==
    /\ qcfg \in DedupConfigs
    /\ qres = ZeroLegacyConfig
    /\ qerr = NoError
    /\ qpc = "called"
    /\ qchk = [out |-> "none", err |-> NoError]

(***************************************************************************)
(* config/v3_4_experimental: Parse and ParseCompatibleVersion.             *)
(*                                                                         *)
(* A raw config is the record of what the functions read of its bytes:     *)
(* whether it is empty, whether it decodes (syntax), the text of its       *)
(* ignition.version, whether validation of the current schema finds a      *)
(* fatal entry, and, for a legacy config, what v2_4.Parse makes of it.     *)
(* The text of a version is <<major, minor, patch, pre-release>>; any       *)
(* other tuple is no semantic version.                                     *)
(***************************************************************************)

\* The legacy configs that v2_4.Parse hands to the translator, with what
\* legacy validation reports of each.
LegacySamples ==
    << [cfg |-> LegacyConfig(<<>>,
                   << [Filesystem |-> "root", Path |-> <<"/", "a">>, Append |-> FALSE] >>,
                   <<>>, <<>>,
                   << [Name |-> "u", Enable |-> TRUE, Enabled |-> <<>>, Dropins |-> <<>>] >>,
                   0),
        env |-> [legacy |-> "valid", genFails |-> FALSE]],
       [cfg |-> LegacyConfig(<<>>, <<>>,
                   << [Filesystem |-> "root", Path |-> <<"/", "a">>],
                      [Filesystem |-> "root", Path |-> <<"/", "a">>] >>,
                   <<>>, <<>>, 0),
        env |-> [legacy |-> "valid", genFails |-> FALSE]],
       [cfg |-> LegacyConfig(<< [Name |-> "root", Mount |-> <<>>] >>,
                   <<>>, <<>>, <<>>, <<>>, 0),
        env |-> [legacy |-> "valid", genFails |-> FALSE]],
       [cfg |-> LegacyConfig(<<>>, <<>>, <<>>, <<>>, <<>>, 0),
        env |-> [legacy |-> "deprecated", genFails |-> FALSE]] >>

\* semver.Version{}
ZeroVersion == [Major |-> 0, Minor |-> 0, Patch |-> 0, PreRelease |-> ""]

\* semver.NewVersion
NewVersion(text) ==
    IF Len(text) = 4
    THEN [err |-> NoError,
          v |-> [Major |-> text[1], Minor |-> text[2], Patch |-> text[3],
                 PreRelease |-> text[4]]]
    ELSE [err |-> [kind |-> "semver"], v |-> ZeroVersion]

\* types.MaxVersion of the package: 3.4.0-experimental
MaxVersion == [Major |-> 3, Minor |-> 4, Patch |-> 0, PreRelease |-> "experimental"]

\* The versions the chain below the current schema parses.
PrevVersions ==
    { [Major |-> 3, Minor |-> n, Patch |-> 0, PreRelease |-> ""] : n \in 0..3 }

\* types.Config{} and the config decoded from a raw config.
EmptyConfig == [Version |-> <<>>, Body |-> "zero"]

Decoded(raw) == [Version |-> raw.version, Body |-> raw.body]

\* util.HandleParseErrors(rawConfig, &config)
HandleParseErrors(raw) ==
    IF raw.syntax = "ok" THEN NoError ELSE [kind |-> "ParseError"]

\* The mutant of IsMaxVersion that does not compare the pre-release.
IsMaxVersionUpToPreRelease(version) ==
    /\ version.Major = MaxVersion.Major
    /\ version.Minor = MaxVersion.Minor
    /\ version.Patch = MaxVersion.Patch

\* *version != types.MaxVersion, negated
IsMaxVersion(version) == version = MaxVersion

\* Parse: the config and the error it returns.
Parse(raw) ==
    LET parsed == NewVersion(raw.version)
    IN  IF raw.empty
        THEN [cfg |-> EmptyConfig, err |-> [kind |-> "ErrEmpty"]]
        ELSE IF HandleParseErrors(raw) # NoError
        THEN [cfg |-> EmptyConfig, err |-> HandleParseErrors(raw)]
        ELSE IF parsed.err # NoError \/ ~IsMaxVersion(parsed.v)
        THEN [cfg |-> EmptyConfig, err |-> [kind |-> "ErrUnknownVersion"]]
        ELSE IF raw.fatal
        THEN [cfg |-> EmptyConfig, err |-> [kind |-> "ErrInvalid"]]
        ELSE [cfg |-> Decoded(raw), err |-> NoError]

\* util.GetConfigVersion: it decodes no more than the version, so a config
\* with a field of the wrong type ("badField") still has a version.
GetConfigVersion(raw) ==
    LET parsed == NewVersion(raw.version)
    IN  IF raw.empty
        THEN [version |-> ZeroVersion, err |-> [kind |-> "ErrEmpty"]]
        ELSE IF raw.syntax = "badJSON"
        THEN [version |-> ZeroVersion, err |-> [kind |-> "ParseError"]]
        ELSE IF parsed.err # NoError
        THEN [version |-> ZeroVersion, err |-> [kind |-> "ErrInvalidVersion"]]
        ELSE [version |-> parsed.v, err |-> NoError]

\* prev.ParseCompatibleVersion: the chain of the schemas below the current.
PrevParseCompatibleVersion(raw) ==
    LET parsed == NewVersion(raw.version)
    IN  IF raw.empty
        THEN [cfg |-> EmptyConfig, err |-> [kind |-> "ErrEmpty"]]
        ELSE IF HandleParseErrors(raw) # NoError
        THEN [cfg |-> EmptyConfig, err |-> HandleParseErrors(raw)]
        ELSE IF parsed.err # NoError \/ parsed.v \notin PrevVersions
        THEN [cfg |-> EmptyConfig, err |-> [kind |-> "ErrUnknownVersion"]]
        ELSE IF raw.fatal
        THEN [cfg |-> EmptyConfig, err |-> [kind |-> "ErrInvalid"]]
        ELSE [cfg |-> [Version |-> <<3, 3, 0, "">>, Body |-> raw.body],
              err |-> NoError]

\* translate.Translate of the current schema: the previous schema's config
\* with the current schema's version.
TranslateFromPrev(cfg) ==
    [cfg EXCEPT !.Version = <<MaxVersion.Major, MaxVersion.Minor,
                              MaxVersion.Patch, MaxVersion.PreRelease>>]

\* json.Marshal(newCfg): the raw config of a translated legacy config. It
\* decodes, its version is the translator's, and the translator has validated
\* it.
Marshal(newCfg) ==
    [empty |-> FALSE, syntax |-> "ok",
     version |-> IF newCfg.Version = "3.1.0" THEN <<3, 1, 0, "">> ELSE <<"x">>,
     fatal |-> FALSE, body |-> "translated",
     legacy |-> [parse |-> "error", cfg |-> 0]]

\* The mutant of TakesLegacyPath that takes it for major version 2 only.
TakesLegacyPathFor2Only(version) == version.Major = 2

\* version.Major != 3
TakesLegacyPath(version) == version.Major # 3

\* One call of Parse.
ParseCall ==
    /\ pfn = "Parse"
    /\ ppc = "called"
    /\ pres' = Parse(praw).cfg
    /\ perr' = Parse(praw).err
    /\ pcalls' = <<"Parse">>
    /\ ppc' = "returned"
    /\ UNCHANGED <<praw, pfn, pver>>
    /\ UNCHANGED notParse

\* ParseCompatibleVersion up to the test of the major version.
GetVersion ==
    /\ pfn = "ParseCompatibleVersion"
    /\ ppc = "called"
    /\ LET got == GetConfigVersion(praw)
       IN  /\ pver' = got.version
           /\ perr' = got.err
           /\ ppc' = IF got.err # NoError THEN "returned"
                     ELSE IF TakesLegacyPath(got.version) THEN "legacy"
                     ELSE "dispatch"
    /\ pcalls' = Append(pcalls, "GetConfigVersion")
    /\ UNCHANGED <<praw, pfn, pres>>
    /\ UNCHANGED notParse

\* cfg, _, err := v2_4.Parse(raw) and the return when it fails. The report
\* tested with it is the one of GetConfigVersion, which had no error.
LegacyParse ==
    /\ ppc = "legacy"
    /\ pcalls' = Append(pcalls, "v2_4.Parse")
    /\ IF praw.legacy.parse # "ok"
       THEN /\ perr' = Wrap("unable to parse 2.x ignition", [kind |-> "LegacyParse"])
            /\ ppc' = "returned"
       ELSE /\ perr' = NoError
            /\ ppc' = "translate"
    /\ UNCHANGED <<praw, pfn, pver, pres>>
    /\ UNCHANGED notParse

\* What ParseCompatibleVersion does with the outcome of the translator: on
\* success, raw, err = json.Marshal(newCfg).
AfterTranslate(new) ==
    CASE new.out = "panic" ->
           /\ ppc' = "panicked"
           /\ UNCHANGED <<praw, perr>>
      [] new.out = "error" ->
           /\ ppc' = "returned"
           /\ perr' = Wrap("unable to translate 2.x ignition to 3.1", new.err)
           /\ UNCHANGED praw
      [] new.out = "ok" ->
           /\ ppc' = "dispatch"
           /\ praw' = Marshal(new.cfg)
           /\ UNCHANGED perr

\* newCfg, err := v24tov31.Translate(cfg, map[string]string{})
LegacyTranslate ==
    /\ ppc = "translate"
    /\ pcalls' = Append(pcalls, "v24tov31.Translate")
    /\ AfterTranslate(Translate(LegacySamples[praw.legacy.cfg].cfg,
                                [nil |-> FALSE, m |-> <<>>],
                                LegacySamples[praw.legacy.cfg].env))
    /\ UNCHANGED <<pfn, pver, pres>>
    /\ UNCHANGED notParse

\* The end of ParseCompatibleVersion: Parse for the max version, and the
\* chain with the translation of its config for every other.
Dispatch ==
    /\ ppc = "dispatch"
    /\ IF pver = MaxVersion
       THEN /\ pcalls' = Append(pcalls, "Parse")
            /\ pres' = Parse(praw).cfg
            /\ perr' = Parse(praw).err
       ELSE LET prevCfg == PrevParseCompatibleVersion(praw)
            IN  IF prevCfg.err # NoError
                THEN /\ pcalls' = Append(pcalls, "prev.ParseCompatibleVersion")
                     /\ pres' = EmptyConfig
                     /\ perr' = prevCfg.err
                ELSE /\ pcalls' = pcalls \o <<"prev.ParseCompatibleVersion",
                                              "translate.Translate">>
                     /\ pres' = TranslateFromPrev(prevCfg.cfg)
                     /\ perr' = NoError
    /\ ppc' = "returned"
    /\ UNCHANGED <<praw, pfn, pver>>
    /\ UNCHANGED notParse

NextParse ==
    \/ ParseCall
    \/ GetVersion
    \/ LegacyParse
    \/ LegacyTranslate
    \/ Dispatch

\* The inputs: the texts of ignition.version, and the raw configs.
VersionTexts ==
    { <<"x">>, <<1, 0, 0, "">>, <<2, 4, 0, "">>, <<3, 0, 0, "">>,
      <<3, 3, 0, "">>, <<3, 4, 0, "experimental">>, <<3, 4, 0, "">>,
      <<3, 5, 0, "">>, <<4, 0, 0, "">> }

\* v2_4.Parse parses the configs of version 2.x and below.
LegacyParses(text) ==
    IF Len(text) = 4 /\ text[1] \in {1, 2}
    THEN { [parse |-> "ok", cfg |-> c] : c \in DOMAIN LegacySamples }
         \cup { [parse |-> "error", cfg |-> 0] }
    ELSE { [parse |-> "error", cfg |-> 0] }

EmptyRaw ==
    [empty |-> TRUE, syntax |-> "badJSON", version |-> <<"x">>, fatal |-> FALSE,
     body |-> "c", legacy |-> [parse |-> "error", cfg |-> 0]]

RawConfigs ==
    { EmptyRaw }
    \cup
    UNION { { [empty |-> FALSE, syntax |-> s, version |-> t, fatal |-> f,
               body |-> "c", legacy |-> l] :
                s \in {"ok", "badJSON", "badField"}, f \in BOOLEAN,
                l \in LegacyParses(t) } : t \in VersionTexts }

IdleParse ==
    /\ praw = EmptyRaw
    /\ pfn = "none"
    /\ ppc = "idle"
    /\ pcalls = <<>>
    /\ pver = ZeroVersion
    /\ pres = EmptyConfig
    /\ perr = NoError

InitParse ==
    /\ praw \in RawConfigs
    /\ pfn \in {"Parse", "ParseCompatibleVersion"}
    /\ ppc = "called"
    /\ pcalls = <<>>
    /\ pver = ZeroVersion
    /\ pres = EmptyConfig
    /\ perr = NoError

(***************************************************************************)
(* config/v3_3/types: Verification.HashParts and Verification.Validate.    *)
(* A hash string is the sequence of its characters.  The two functions are *)
(* modelled from the specification ("hash is <algo>-<hex> where algo is    *)
(* sha256 or sha512 and hex length is exact (64 or 128); malformed         *)
(* separator or wrong length is a distinct error kind"); the cases are     *)
(* those of TestHashParts and TestHashValidate and their neighbours.       *)
(***************************************************************************)

Sha256 == <<"s", "h", "a", "2", "5", "6">>

Sha512 == <<"s", "h", "a", "5", "1", "2">>

Xor == <<"x", "o", "r">>

HexDigits == <<"0", "1", "2", "3", "4", "5", "6", "7", "8", "9", "a", "b", "c", "d", "e", "f">>

\* A hex string of n characters.
Hex(n) == [i \in 1..n |-> HexDigits[((i - 1) % 16) + 1]]

\* The mutant of CutAt that leaves the separator in the second part.
CutAtKeepingSeparator(s, i) == <<SubSeq(s, 1, i - 1), SubSeq(s, i, Len(s))>>

\* The two parts of s around its character i.
CutAt(s, i) == <<SubSeq(s, 1, i - 1), SubSeq(s, i + 1, Len(s))>>

\* The parts of s around its first "-": one part when there is none.
SplitHash(s) ==
    LET i == Index(s, <<"-">>)
    IN IF i < 0 THEN <<s>> ELSE CutAt(s, i + 1)

\* HashParts: the algorithm and the sum of a hash string, or
\* ErrHashMalformed when it is not made of two parts.
HashParts(hash) ==
    LET parts == SplitHash(hash)
    IN IF Len(parts) # 2
       THEN [algo |-> <<>>, sum |-> <<>>, err |-> "ErrHashMalformed"]
       ELSE [algo |-> parts[1], sum |-> parts[2], err |-> Nil]

\* The length of the hex form of a digest of the algorithm.
HexLen(algo) == IF algo = Sha256 THEN 64 ELSE 128

\* Validate: the error reported for the hash, Nil when there is none.
ValidateHash(hash) ==
    LET parts == HashParts(hash)
    IN IF parts.err # Nil THEN parts.err
       ELSE IF parts.algo \notin {Sha256, Sha512} THEN "ErrHashUnrecognized"
       ELSE IF Len(parts.sum) # HexLen(parts.algo) THEN "ErrHashWrongSize"
       ELSE Nil

\* The hash strings explored: an algorithm name, a separator and a sum of a
\* length at, next to or far from the two exact lengths; sums that hold a
\* second "-"; and the strings of the two tests.
HashAlgos == {Sha256, Sha512, Xor, <<>>}

HashSeparators == {<<"-">>, <<":">>, <<>>}

SumLengths == {0, 3, 63, 64, 65, 127, 128, 129}

HashStrings ==
    { a \o sep \o Hex(n) : a \in HashAlgos, sep \in HashSeparators, n \in SumLengths }
      \cup { a \o <<"-">> \o Hex(3) \o <<"-">> \o Hex(n) : a \in HashAlgos, n \in {60, 124} }
      \cup { <<"\"">> \o a \o <<"-">> \o Hex(HexLen(a)) \o <<"\"">> : a \in {Sha256, Sha512} }

\* v.HashParts()
HashPartsCall ==
    /\ hpc = "call"
    /\ hparts' = HashParts(hin)
    /\ hpc' = "parts"
    /\ UNCHANGED <<hin, hverr>>
    /\ UNCHANGED notHash

\* v.Validate(c)
ValidateCall ==
    /\ hpc = "parts"
    /\ hverr' = ValidateHash(hin)
    /\ hpc' = "validated"
    /\ UNCHANGED <<hin, hparts>>
    /\ UNCHANGED notHash

NextHash == HashPartsCall \/ ValidateCall

IdleHash ==
    /\ hin = <<>>
    /\ hpc = "idle"
    /\ hparts = [algo |-> <<>>, sum |-> <<>>, err |-> Nil]
    /\ hverr = Nil

InitHash ==
    /\ hin \in HashStrings
    /\ hpc = "call"
    /\ hparts = [algo |-> <<>>, sum |-> <<>>, err |-> Nil]
    /\ hverr = Nil

(***************************************************************************)
(* internal/providers/ibmcloud: FetchConfig.  The routine that runs        *)
(* FetchConfig and the goroutine that runs dispatch share the variable     *)
(* data and the context ctx; the timer of context.WithTimeout is a third   *)
(* party.  Byte slices are strings, nil being "".  The read of the config  *)
(* drive is a call that ends with bytes or with an error, before or after  *)
(* the context is done.                                                    *)
(***************************************************************************)

\* What fn() can end with: the bytes of the user data, or an error of the
\* device.
ReadOutcomes ==
    { [raw |-> r, err |-> Nil] : r \in {"config-a", "config-b", "config-c"} }
      \cup { [raw |-> "", err |-> e] : e \in {"mount failed", "read failed"} }

\* ctx, cancel := context.WithTimeout(...); go dispatch(...)
FetchConfigStart ==
    /\ ipc = "called"
    /\ ipc' = "wait"
    /\ igo' = "fn"
    /\ UNCHANGED <<isrc, ictx, idata, iparsed, ilog>>
    /\ UNCHANGED notFetch

\* The timer of the context fires: ctx.Err() becomes DeadlineExceeded and
\* ctx.Done() is closed, unless the context was cancelled before.
DeadlineExpires ==
    /\ ipc # "called"
    /\ ictx = "nil"
    /\ ictx' = "DeadlineExceeded"
    /\ UNCHANGED <<isrc, idata, ipc, igo, iparsed, ilog>>
    /\ UNCHANGED notFetch

\* What dispatch logs for an error of fn.
DispatchLog(err) ==
    IF err = "Canceled" THEN <<>>
    ELSE IF err = "DeadlineExceeded" THEN <<"timed out while fetching config">>
    ELSE <<"failed to fetch config">>

\* raw, err := fn() in dispatch: the read ends as the device decides, or
\* with the error of the context once the context is done; on an error
\* dispatch logs and returns.
ReadReturns ==
    /\ igo = "fn"
    /\ \E err \in {isrc.err} \cup (IF ictx = "nil" THEN {} ELSE {ictx}) :
         IF err = Nil
         THEN /\ igo' = "write"
              /\ UNCHANGED ilog
         ELSE /\ igo' = "failed"
              /\ ilog' = ilog \o DispatchLog(err)
    /\ UNCHANGED <<isrc, ictx, idata, ipc, iparsed>>
    /\ UNCHANGED notFetch

\* data = raw
WriteData ==
    /\ igo = "write"
    /\ idata' = isrc.raw
    /\ igo' = "cancel"
    /\ UNCHANGED <<isrc, ictx, ipc, iparsed, ilog>>
    /\ UNCHANGED notFetch

\* cancel(): the first of cancel and the timer decides ctx.Err().
Cancel ==
    /\ igo = "cancel"
    /\ ictx' = IF ictx = "nil" THEN "Canceled" ELSE ictx
    /\ igo' = "done"
    /\ UNCHANGED <<isrc, idata, ipc, iparsed, ilog>>
    /\ UNCHANGED notFetch

\* <-ctx.Done() and the test of ctx.Err() after it.
ContextDone ==
    /\ ipc = "wait"
    /\ ictx # "nil"
    /\ ilog' = IF ictx = "DeadlineExceeded"
               THEN Append(ilog, "cidata drive was not available in time")
               ELSE ilog
    /\ ipc' = "parse"
    /\ UNCHANGED <<isrc, ictx, idata, igo, iparsed>>
    /\ UNCHANGED notFetch

\* What the read of data in FetchConfig can yield.  After a cancel the write
\* of dispatch happened before the read.  After the deadline nothing orders
\* the two: the read yields the value in memory, or the initial nil although
\* the write was made, or the bytes of a write that is under way.
Visible(data, ctxErr, writer, raw) ==
    IF ctxErr = "Canceled" THEN {data}
    ELSE {data, ""} \cup (IF writer = "write" THEN {raw} ELSE {})

\* return util.ParseConfig(f.Logger, data)
ParseConfig ==
    /\ ipc = "parse"
    /\ \E d \in Visible(idata, ictx, igo, isrc.raw) : iparsed' = <<d>>
    /\ ipc' = "returned"
    /\ UNCHANGED <<isrc, ictx, idata, igo, ilog>>
    /\ UNCHANGED notFetch

NextFetch ==
    \/ FetchConfigStart
    \/ DeadlineExpires
    \/ ReadReturns
    \/ WriteData
    \/ Cancel
    \/ ContextDone
    \/ ParseConfig

IdleFetch ==
    /\ isrc = [raw |-> "", err |-> Nil]
    /\ ictx = "nil"
    /\ idata = ""
    /\ ipc = "idle"
    /\ igo = "unstarted"
    /\ iparsed = <<>>
    /\ ilog = <<>>

InitFetch ==
    /\ isrc \in ReadOutcomes
    /\ ictx = "nil"
    /\ idata = ""
    /\ ipc = "called"
    /\ igo = "unstarted"
    /\ iparsed = <<>>
    /\ ilog = <<>>
(***************************************************************************)
(* The specifications.                                                     *)
(***************************************************************************)

\* Each specification starts its own part and leaves the others idle.
IdleProviders == IdleHash /\ IdleFetch

IdleConfig == IdleTranslate /\ IdleDedup /\ IdleParse /\ IdleProviders

StartMain == InitMain /\ IdleClean /\ IdleFs /\ IdleDisks /\ IdleConfig

StartClean == InitClean /\ IdleMain /\ IdleFs /\ IdleDisks /\ IdleConfig

StartFs == InitFs /\ IdleMain /\ IdleClean /\ IdleDisks /\ IdleConfig

StartDisks == InitDisks /\ IdleMain /\ IdleClean /\ IdleFs /\ IdleConfig

IdleEngine == IdleMain /\ IdleClean /\ IdleFs /\ IdleDisks

StartTranslate == InitTranslate /\ IdleEngine /\ IdleDedup /\ IdleParse /\ IdleProviders

StartDedup == InitDedup /\ IdleEngine /\ IdleTranslate /\ IdleParse /\ IdleProviders

StartParse == InitParse /\ IdleEngine /\ IdleTranslate /\ IdleDedup /\ IdleProviders

IdleLegacy == IdleTranslate /\ IdleDedup /\ IdleParse

StartHash == InitHash /\ IdleEngine /\ IdleLegacy /\ IdleFetch

StartFetch == InitFetch /\ IdleEngine /\ IdleLegacy /\ IdleHash

SpecMain == StartMain /\ [][NextMain]_vars

SpecClean == StartClean /\ [][NextClean]_vars

SpecFs == StartFs /\ [][NextFs]_vars

SpecDisks == StartDisks /\ [][NextDisks]_vars

\* The steps of the goroutine that runs the stage, its receive from a worker
\* included, and the steps a worker takes on its own.
MainStep ==
    \/ Run
    \/ CreatePartitions
    \/ CreateRaids
    \/ CreateFilesystemsStart
    \/ WaitOnDevices
    \/ CreateDeviceAlias
    \/ StartWorkers
    \/ SendWork
    \/ CloseWork
    \/ \E w \in DOMAIN wk : Collect(w)
    \/ ReturnCombined

WorkerStep(w) ==
    /\ w \in DOMAIN wk
    /\ (WorkerReceive(w) \/ WorkerCreate(w) \/ WorkerExit(w))

\* The disks stage under a fair scheduler: a goroutine that can take a step
\* is not suspended for ever, and a createFilesystem call returns.
SpecDisksFair ==
    /\ StartDisks
    /\ [][NextDisks]_vars
    /\ WF_vars(MainStep)
    /\ \A w \in 1..MaxProcs : WF_vars(WorkerStep(w))

SpecHash == StartHash /\ [][NextHash]_vars

SpecFetch == StartFetch /\ [][NextFetch]_vars

\* FetchConfig under a fair scheduler and a timer that fires: the routine
\* that runs FetchConfig takes its steps, and the deadline of the context
\* passes.  Nothing is asked of the read of the config drive.
SpecFetchFair ==
    /\ StartFetch
    /\ [][NextFetch]_vars
    /\ WF_vars(FetchConfigStart \/ ContextDone \/ ParseConfig)
    /\ WF_vars(DeadlineExpires)

SpecTranslate == StartTranslate /\ [][NextTranslate]_vars

SpecDedup == StartDedup /\ [][NextDedup]_vars

SpecParse == StartParse /\ [][NextParse]_vars

(***************************************************************************)
(* Properties of the engine binary (SpecMain).                             *)
(***************************************************************************)

\* Positions in mtrace of the calls of one kind.
Calls(kind) == { i \in DOMAIN mtrace : mtrace[i].call = kind }

RunReturnedError == \E i \in Calls("Run") : mtrace[i].err # Nil

SaveFailed == \E i \in Calls("Save") : mtrace[i].err # Nil

\* C1: State.Save is called only after engine.Run returned no error; a run
\* whose stage returned an error exits without ever calling State.Save.
C1_SaveOnlyAfterSuccessfulRun ==
    /\ \A i \in Calls("Save") :
          \E j \in Calls("Run") : j < i /\ mtrace[j].err = Nil
    /\ RunReturnedError => Calls("Save") = {}

\* A run whose stage failed has exited (without a save).
C1_Witness ==
    /\ mpc = "exited"
    /\ RunReturnedError
    /\ Calls("Save") = {}

\* C2: once engine.Run has returned and the process is past the status call,
\* Status was called exactly once, after Run, before any Save, with Run's
\* error; the exit code and the presence of a Save are functions of Run's
\* and Save's errors alone, whatever Status returned.
C2_StatusOnceBetweenRunAndSave ==
    /\ Calls("Status") # {} => Calls("Run") # {}
    /\ Cardinality(Calls("Status")) <= 1
    /\ (Calls("Run") # {} /\ mpc \in {"checkErr", "save", "exited"}) =>
          \E i \in Calls("Status") :
             /\ \A j \in Calls("Run") : j < i /\ mtrace[i].arg = mtrace[j].err
             /\ \A k \in Calls("Save") : i < k
    /\ (Calls("Run") # {} /\ mpc = "exited") =>
          /\ (Calls("Save") # {}) = ~RunReturnedError
          /\ exitCode = IF RunReturnedError \/ SaveFailed THEN 1 ELSE 0

\* Status failed after a failed stage, and the exit code is still 1.
C2_Witness ==
    /\ mpc = "exited"
    /\ RunReturnedError
    /\ \E i \in Calls("Status") : mtrace[i].err # Nil /\ mtrace[i].arg # Nil
    /\ exitCode = 1

\* A required argument is missing: no --stage, or no platform (the binary
\* "main" also accepts --oem in place of --platform).
ArgumentMissing ==
    \/ flags.stage = ""
    \/ flags.platform = "" /\ (flags.entry = "main" => flags.oem = "")

SetupFailed == fetcherErr # Nil \/ loadErr # Nil

\* C3 as stated: exit code 1 exactly when the stage run returned an error,
\* 2 exactly when --platform or --stage is missing, 3 exactly when the
\* fetcher or the state could not be set up, 0 otherwise.
C3_ExitCodesAsStated ==
    mpc = "exited" =>
        /\ (exitCode = 1) = RunReturnedError
        /\ (exitCode = 2) = (flags.platform = "" \/ flags.stage = "")
        /\ (exitCode = 3) = SetupFailed
        /\ exitCode \in {2, 3} => mtrace = <<>>

\* C3 (amended): --version exits with 0 before any check; otherwise 2 exactly
\* when an argument is missing, 3 exactly when the fetcher or the state could
\* not be set up, 1 exactly when the stage run returned an error or
\* State.Save failed, and 0 exactly when the state was saved; exits 2 and 3
\* happen before the stage is run and before status is posted.
C3_ExitCodes ==
    mpc = "exited" =>
        /\ exitCode \in 0..3
        /\ (exitCode = 2) = (~flags.version /\ ArgumentMissing)
        /\ (exitCode = 3) = (~flags.version /\ ~ArgumentMissing /\ SetupFailed)
        /\ (exitCode = 1) = (RunReturnedError \/ SaveFailed)
        /\ (exitCode = 0) =
              (flags.version \/ \E i \in Calls("Save") : mtrace[i].err = Nil)
        /\ exitCode \in {2, 3} => mtrace = <<>>

\* The stage succeeded and State.Save failed: exit code 1.
C3_Witness ==
    /\ mpc = "exited"
    /\ ~RunReturnedError
    /\ SaveFailed
    /\ exitCode = 1

(***************************************************************************)
(* Properties of cleanFilesystemExcept (SpecClean).                        *)
(***************************************************************************)

\* The path a literal absolute pattern names ("/" names the top directory),
\* as its sequence of names; a final "/" does not change the path.
IsLiteralAbsolute(pat) ==
    \E q \in Paths \cup {<<>>} :
        pat = PathString(q) \o <<"/">> \/ (q # <<>> /\ pat = PathString(q))

PatternPath(pat) ==
    CHOOSE q \in Paths \cup {<<>>} :
        pat = PathString(q) \o <<"/">> \/ (q # <<>> /\ pat = PathString(q))

KeptPaths == { PatternPath(cfs.CleanExcept[k]) : k \in DOMAIN cfs.CleanExcept }

\* The entries the claim says are left: at a pattern's path, beneath a
\* directory at a pattern's path, or a directory that is a proper ancestor
\* of a pattern's path.
ExpectedAfterClean ==
    { e \in ctree0 :
        \/ e.path \in KeptPaths
        \/ \E q \in KeptPaths :
              /\ IsPrefix(q, e.path) /\ q # e.path
              /\ (q = <<>> \/ [path |-> q, dir |-> TRUE] \in ctree0)
        \/ e.dir /\ \E q \in KeptPaths : IsPrefix(e.path, q) /\ q # e.path }

AllLiteralAbsolute ==
    /\ cfs.CleanExcept # <<>>
    /\ \A k \in DOMAIN cfs.CleanExcept : IsLiteralAbsolute(cfs.CleanExcept[k])

\* C8: with literal absolute paths as cleanExcept patterns, a successful
\* cleanFilesystemExcept leaves exactly the entries at a pattern's path, the
\* entries beneath a directory at a pattern's path and the directories that
\* are proper ancestors of a pattern's path; everything else is removed.
C8_CleanExceptLeavesExactlyKept ==
    (cpc = "returned" /\ cerr = Nil /\ AllLiteralAbsolute) =>
        csys.tree = ExpectedAfterClean

\* A clean that kept an ancestor directory and a pattern's entry beneath it
\* and removed a sibling beneath the ancestor and a non-directory at an
\* ancestor path of another pattern.
C8_Witness ==
    /\ cpc = "returned" /\ cerr = Nil /\ AllLiteralAbsolute
    /\ <<>> \notin KeptPaths
    /\ \E d \in csys.tree, k \in csys.tree, r \in ctree0 \ csys.tree :
          /\ d.dir /\ d.path \notin KeptPaths
          /\ k.path \in KeptPaths /\ Parent(k.path) = d.path
          /\ Parent(r.path) = d.path
    /\ \E f \in ctree0 \ csys.tree, q \in KeptPaths :
          ~f.dir /\ IsPrefix(f.path, q) /\ f.path # q

OpsOf(kind) == { i \in DOMAIN csys.ops : csys.ops[i].op = kind }

FsOps(kinds) == { i \in DOMAIN fsys.ops : fsys.ops[i].op \in kinds }

MkfsRun == FsOps({"mkfs"}) # {}

\* Format, UUID, label and tree of the device are what they were.
ContentsUntouched ==
    /\ fsys.format = fdev0.format
    /\ fsys.uuid = fdev0.uuid
    /\ fsys.label = fdev0.label
    /\ fsys.tree = fdev0.tree

\* The idempotence predicate of the specification, on the probed values.
ProbedMatchesConfig ==
    /\ (fdev0.format = ffs.Format \/ fdev0.label = "OEM")
    /\ (ffs.Label = <<>> \/ ffs.Label = <<fdev0.label>>)
    /\ (ffs.UUID = <<>> \/
          canonicalizeFilesystemUUID(fdev0.format, fdev0.uuid)
            = canonicalizeFilesystemUUID(ffs.Format, ffs.UUID[1]))

\* createFilesystem returned, its probe having succeeded, for an entry
\* without wipeFilesystem and without the legacy create block.
ReturnedNoWipeNoCreate ==
    /\ fpc = "returned"
    /\ fenv.probeFails = 0
    /\ ~ffs.WipeFilesystem
    /\ ffs.Create = <<>>

\* C6 as stated: without wipeFilesystem and create block, no mkfs is run and
\* the device contents are left as they are exactly when the probed format,
\* label and UUID match the configured ones.
C6_SkipExactlyWhenMatchAsStated ==
    ReturnedNoWipeNoCreate =>
        ((~MkfsRun /\ ContentsUntouched) = ProbedMatchesConfig)

\* C6 (amended): without wipeFilesystem and create block, when the probed
\* format, label and UUID match, no mkfs is run, and the device is left as
\* it is with a nil error if cleanExcept is empty (else clean-except runs);
\* when they do not match, an existing filesystem is left as it is with
\* ErrBadFilesystem and no mkfs, and an empty device gets mkfs or the
\* unsupported-format error.
C6_SkipWhenMatch ==
    ReturnedNoWipeNoCreate =>
        IF ProbedMatchesConfig
        THEN /\ ~MkfsRun
             /\ ffs.CleanExcept = <<>> => (ContentsUntouched /\ ferr = Nil)
             /\ ffs.CleanExcept # <<>> => FsOps({"TempDir"}) # {}
        ELSE IF fdev0.format # ""
        THEN ~MkfsRun /\ ContentsUntouched /\ ferr = ErrBadFilesystem
        ELSE MkfsRun \/ ferr = "unsupported filesystem format"

\* A vfat volume whose probed id differs from the configured one in case and
\* in the dash is accepted without mkfs.
C6_Witness ==
    /\ ReturnedNoWipeNoCreate
    /\ ProbedMatchesConfig
    /\ ffs.Format = "vfat"
    /\ ffs.UUID # <<>> /\ ffs.UUID # <<fdev0.uuid>>
    /\ ffs.CleanExcept = <<>>
    /\ ~MkfsRun /\ ContentsUntouched /\ ferr = Nil

\* The two situations in which an existing filesystem is refused.
RefusalExpected ==
    /\ fdev0.format # ""
    /\ \/ ffs.Create # <<>> /\ ~ffs.Create[1].Force
       \/ ffs.Create = <<>> /\ ~ffs.WipeFilesystem /\ ~ProbedMatchesConfig

\* C7 as stated: ErrBadFilesystem (and no mkfs) exactly when a filesystem
\* exists and either create is present without force, or create is absent,
\* wipeFilesystem is false and the probed values do not match; and on an
\* empty device mkfs is attempted.
C7_BadFilesystemAsStated ==
    (fpc = "returned" /\ fenv.probeFails = 0) =>
        /\ (ferr = ErrBadFilesystem /\ ~MkfsRun) = RefusalExpected
        /\ fdev0.format = "" => MkfsRun

\* C7 (amended): as stated, except that on an empty device mkfs is run
\* exactly when the configured format is one createFilesystem has a command
\* for; for any other format the unsupported-format error is returned.
C7_BadFilesystem ==
    (fpc = "returned" /\ fenv.probeFails = 0) =>
        /\ (ferr = ErrBadFilesystem /\ ~MkfsRun) = RefusalExpected
        /\ ferr = ErrBadFilesystem => ContentsUntouched
        /\ fdev0.format = "" =>
              IF ffs.Format \in {"btrfs", "ext4", "xfs", "swap", "vfat"}
              THEN MkfsRun
              ELSE ~MkfsRun /\ ferr = "unsupported filesystem format"

\* An existing filesystem of the configured format is refused because its
\* UUID is not the configured one.
C7_Witness ==
    /\ fpc = "returned" /\ fenv.probeFails = 0
    /\ ffs.Create = <<>> /\ ~ffs.WipeFilesystem
    /\ fdev0.format = ffs.Format
    /\ ffs.Label = <<>>
    /\ ffs.UUID # <<>>
    /\ ferr = ErrBadFilesystem /\ ~MkfsRun

\* C10: every probe lookup, every mkfs and the clean-except mount address
\* the device through its alias, never through the configured path.
C10_DeviceOnlyThroughAlias ==
    \A i \in FsOps({"FilesystemType", "FilesystemUUID", "FilesystemLabel",
                    "mkfs", "Mount"}) :
        fsys.ops[i].dev = DeviceAlias(ffs.Device)

(***************************************************************************)
(* Properties of the disks stage (SpecDisks).                              *)
(***************************************************************************)

Steps(name) == { i \in DOMAIN dsteps : dsteps[i].step = name }

\* C4: outside the fast path createRaids starts only after createPartitions
\* returned success and createFilesystems only after createRaids returned
\* success; a failing sub-step is the last one started, and the stage
\* returns an error.
C4_SubStepsInStrictOrder ==
    /\ \A i \in Steps("createRaids") :
          \E j \in Steps("createPartitions") : j < i /\ dsteps[j].err = NoErr
    /\ \A i \in Steps("createFilesystems") :
          \E j \in Steps("createRaids") : j < i /\ dsteps[j].err = NoErr
    /\ \A i \in DOMAIN dsteps :
          dsteps[i].err # NoErr =>
             /\ i = Len(dsteps)
             /\ dpc = "returned"
             /\ derr # NoErr
    /\ \A name \in {"createPartitions", "createRaids", "createFilesystems"} :
          Cardinality(Steps(name)) <= 1

\* createRaids failed after createPartitions succeeded, and the stage
\* returned without starting createFilesystems.
C4_Witness ==
    /\ dpc = "returned"
    /\ \E i \in Steps("createRaids") : dsteps[i].err # NoErr
    /\ Steps("createPartitions") # {}
    /\ Steps("createFilesystems") = {}
    /\ Len(FssOf(dcfg)) > 0

PoolReturned == dpc = "returned" /\ wk # <<>>

FailingEntries == { i \in DOMAIN dres : dres[i] # Nil }

\* The error createFilesystems returned.
FilesystemsError == dsteps[Len(dsteps)].err

OnlyImplicitRoot ==
    /\ dcfg.Disks = 0
    /\ dcfg.Raid = 0
    /\ dcfg.Filesystems = <<ImplicitRoot>>

StepSucceeded(name) == \E i \in Steps(name) : dsteps[i].err = NoErr

C11_FastPathOnlyForImplicitRoot ==
    dpc = "returned" =>
        IF OnlyImplicitRoot
        THEN /\ derr = NoErr
             /\ dsteps = <<>>
             /\ aliases = {}
             /\ wk = <<>>
             /\ ddisk = InitialDisks
        ELSE /\ Steps("createPartitions") # {}
             /\ StepSucceeded("createPartitions") => Steps("createRaids") # {}
             /\ StepSucceeded("createRaids") => Steps("createFilesystems") # {}
             /\ (StepSucceeded("createFilesystems") /\ Len(FssOf(dcfg)) > 0) =>
                   \/ Steps("waitOnDevices") # {}
                   \/ derr # NoErr

\* The stage returned at once on the config of the base config alone.
C11_Witness ==
    /\ dpc = "returned"
    /\ OnlyImplicitRoot
    /\ dsteps = <<>>
    /\ derr = NoErr

(***************************************************************************)
(* Properties of Translate (SpecTranslate).                                *)
(***************************************************************************)

TranslateEnded == tpc \in {"returned", "panicked"}

TranslateSucceeded == tpc = "returned" /\ terr = NoError

\* The map the paths are rewritten with: the fsMap argument with root on
\* "/" and the generated paths.
RewriteMap == Check2_4(tcfg, tfsMapIn, tenv).m

\* The files, directories and links of the config in that order, each with
\* its printed name and its path after rewriting.
Inodes ==
    LET entry(kind, n) ==
            [name |-> EntryName(kind, PathStringOf(RewriteMap, n)),
             path |-> PathStringOf(RewriteMap, n)]
    IN [i \in DOMAIN tcfg.Files |-> entry("File: ", tcfg.Files[i])]
       \o [i \in DOMAIN tcfg.Directories |-> entry("Directory: ", tcfg.Directories[i])]
       \o [i \in DOMAIN tcfg.Links |-> entry("Link: ", tcfg.Links[i])]

LinkPaths == { PathStringOf(RewriteMap, tcfg.Links[i]) : i \in DOMAIN tcfg.Links }

HasDuplicateInode == \E i, j \in DOMAIN Inodes : i < j /\ Inodes[i].path = Inodes[j].path

HasInodeUnderLink ==
    \E i \in DOMAIN Inodes : \E l \in LinkPaths : ProperPathPrefix(l, Inodes[i].path)

\* What makes Check2_4 return an error before it looks at files,
\* directories and links, or after it has.
RejectedBeforeInodes ==
    \/ tenv.legacy # "valid"
    \/ tcfg.Networkd # 0
    \/ /\ tenv.genFails
       /\ \E i \in DOMAIN tcfg.Filesystems :
             /\ tcfg.Filesystems[i].Name # "root"
             /\ tfsMapIn.nil \/ tcfg.Filesystems[i].Name \notin DOMAIN tfsMapIn.m
    \/ \E i \in DOMAIN tcfg.Filesystems :
          /\ tcfg.Filesystems[i].Mount # <<>>
          /\ tcfg.Filesystems[i].Mount[1].Create # <<>>
          /\ ~tcfg.Filesystems[i].Mount[1].Create[1].Force

RejectedAfterInodes == CheckUnits(tcfg.Units, {}) # NoError

TranslatedPaths ==
    [i \in DOMAIN tres.Files |-> tres.Files[i].Path]
    \o [i \in DOMAIN tres.Directories |-> tres.Directories[i].Path]
    \o [i \in DOMAIN tres.Links |-> tres.Links[i].Path]

\* C12: Translate never succeeds on a config with two entries among files,
\* directories and links that have the same path after rewriting; when that
\* is the only defect of the config the call returns DuplicateInodeError
\* with Old the name of the earlier and New the name of the later entry of
\* such a pair; and a config translated with success has pairwise distinct
\* paths.
C12_DuplicateInodeRejected ==
    TranslateEnded =>
        /\ HasDuplicateInode => ~TranslateSucceeded
        /\ (/\ HasDuplicateInode
            /\ ~RejectedBeforeInodes
            /\ ~HasInodeUnderLink
            /\ ~RejectedAfterInodes)
             => /\ tpc = "returned"
                /\ terr.kind = "DuplicateInodeError"
                /\ \E i, j \in DOMAIN Inodes :
                      /\ i < j
                      /\ Inodes[i].path = Inodes[j].path
                      /\ terr.Old = Inodes[i].name
                      /\ terr.New = Inodes[j].name
        /\ TranslateSucceeded => NoRepeat(TranslatedPaths)

\* C13: a config in which a file, directory or link lies under the path of
\* a declared link, and that has no other defect, makes Translate return
\* UsesOwnLinkError with such an entry's name and a link path that is a
\* proper path prefix of it; the link reported is never the entry itself.
C13_UsesOwnLinkRejected ==
    TranslateEnded =>
        /\ (/\ HasInodeUnderLink
            /\ ~RejectedBeforeInodes
            /\ ~HasDuplicateInode
            /\ ~RejectedAfterInodes)
             => /\ tpc = "returned"
                /\ terr.kind = "UsesOwnLinkError"
                /\ \E i \in DOMAIN Inodes :
                      /\ terr.Name = Inodes[i].name
                      /\ terr.LinkPath \in LinkPaths
                      /\ ProperPathPrefix(terr.LinkPath, Inodes[i].path)
        /\ (tpc = "returned" /\ terr.kind = "UsesOwnLinkError")
             => terr.Name # EntryName("Link: ", terr.LinkPath)

\* C14: Translate ends by returning, either the zero config with an error
\* or, with a nil error, a config of version "3.1.0" whose validation
\* report is not fatal; whenever Check2_4 rejects the input an error is
\* returned.
C14_TwoOutcomes ==
    /\ tpc # "panicked"
    /\ tpc = "returned" =>
          \/ terr # NoError /\ tres = ZeroConfig
          \/ terr = NoError /\ tres.Version = "3.1.0" /\ ~IsFatal(tres)
    /\ (TranslateEnded /\ Check2_4(tcfg, tfsMapIn, tenv).out = "error") =>
          tpc = "returned" /\ terr # NoError

\* C15: the enabled field of every translated unit is present and false
\* when the legacy Enabled is false (whatever Enable is), present and true
\* when Enabled is true or when Enabled is absent and Enable is true, and
\* absent when Enabled is absent and Enable is false.
C15_EnabledWinsOverEnable ==
    (tpc = "validate" \/ TranslateSucceeded) =>
        /\ Len(tres.Units) = Len(tcfg.Units)
        /\ \A i \in DOMAIN tcfg.Units :
              LET u == tcfg.Units[i]
                  enabled == tres.Units[i].Enabled
              IN /\ tres.Units[i].Name = u.Name
                 /\ u.Enabled = <<FALSE>> => enabled = <<FALSE>>
                 /\ u.Enabled = <<TRUE>> => enabled = <<TRUE>>
                 /\ (u.Enabled = <<>> /\ u.Enable) => enabled = <<TRUE>>
                 /\ (u.Enabled = <<>> /\ ~u.Enable) => enabled = <<>>

\* A unit with Enable true and Enabled false was translated to enabled=false.
C15_Witness ==
    /\ TranslateSucceeded
    /\ \E i \in DOMAIN tcfg.Units :
          /\ tcfg.Units[i].Enable
          /\ tcfg.Units[i].Enabled = <<FALSE>>
          /\ tres.Units[i].Enabled = <<FALSE>>

\* The legacy filesystems that are translated: all but those named root.
NonRoot == SelectSeq(tcfg.Filesystems, LAMBDA f : f.Name # "root")

\* C16: a config translated with success has one filesystem per legacy
\* filesystem not named root, in order; no mount.create block of it has
\* force false; with a create block the output wipeFilesystem is
\* create.force and the options are the mount options followed by the
\* create options; an entry named oem whose wipe is not true has format
\* "btrfs", every other entry its declared format; and the path is the
\* caller's fsMap[name] as it is after the call.
C16_FilesystemsTranslated ==
    TranslateSucceeded =>
        /\ Len(tres.Filesystems) = Len(NonRoot)
        /\ \A i \in DOMAIN tcfg.Filesystems :
              /\ tcfg.Filesystems[i].Mount # <<>>
              /\ tcfg.Filesystems[i].Mount[1].Create # <<>>
              => tcfg.Filesystems[i].Mount[1].Create[1].Force
        /\ \A i \in DOMAIN NonRoot :
              LET mount == NonRoot[i].Mount[1]
                  name == NonRoot[i].Name
                  out == tres.Filesystems[i]
              IN /\ mount.Create # <<>> =>
                       /\ out.WipeFilesystem = <<mount.Create[1].Force>>
                       /\ out.Options = mount.Options \o mount.Create[1].Options
                 /\ mount.Create = <<>> =>
                       /\ out.WipeFilesystem = (IF mount.WipeFilesystem THEN <<TRUE>> ELSE <<>>)
                       /\ out.Options = mount.Options
                 /\ out.Format = IF name = "oem" /\ out.WipeFilesystem # <<TRUE>>
                                 THEN << <<"btrfs">> >>
                                 ELSE << mount.Format >>
                 /\ out.Path = IF ~tfsMap.nil /\ name \in DOMAIN tfsMap.m
                               THEN << tfsMap.m[name] >>
                               ELSE <<>>
                 /\ out.Device = mount.Device

\* An oem filesystem declared ext4 without wipe came out as btrfs next to a
\* filesystem whose create block forces the wipe and adds its options, both
\* on the paths of the map.
C16_Witness ==
    /\ TranslateSucceeded
    /\ Len(tres.Filesystems) = 2
    /\ \E i, j \in DOMAIN NonRoot :
          /\ NonRoot[i].Name = "oem"
          /\ NonRoot[i].Mount[1].Format = <<"ext4">>
          /\ tres.Filesystems[i].Format = << <<"btrfs">> >>
          /\ tres.Filesystems[i].Path = << <<"/", "o">> >>
          /\ NonRoot[j].Mount[1].Create # <<>>
          /\ tres.Filesystems[j].WipeFilesystem = <<TRUE>>
          /\ tres.Filesystems[j].Options = <<"-m", "-c">>

(***************************************************************************)
(* Properties of RemoveDuplicateFilesUnitsUsers (SpecDedup).               *)
(***************************************************************************)

DedupSucceeded == qpc = "returned" /\ qerr = NoError

\* What identifies an entry: the path of a file, the name of a unit or user.
KeyOf(entry) == IF "Path" \in DOMAIN entry THEN entry.Path ELSE entry.Name

Occurrences(list, key) == { i \in DOMAIN list : KeyOf(list[i]) = key }

KeysOf(list) == { KeyOf(list[i]) : i \in DOMAIN list }

\* The entry of the key with the highest index.
Newest(list, key) ==
    list[CHOOSE i \in Occurrences(list, key) :
            \A j \in Occurrences(list, key) : j <= i]

\* Every key of the input occurs exactly once in the output.
OnceEach(in, out) ==
    /\ KeysOf(out) = KeysOf(in)
    /\ \A i, j \in DOMAIN out : KeyOf(out[i]) = KeyOf(out[j]) => i = j

\* The keys of the users of a name, from index i down to the first.
RECURSIVE KeysDescending(_, _, _)
KeysDescending(users, name, i) ==
    IF i = 0 THEN <<>>
    ELSE (IF users[i].Name = name THEN users[i].SSHAuthorizedKeys ELSE <<>>)
         \o KeysDescending(users, name, i - 1)

DedupAccepts ==
    \A i \in DOMAIN qcfg.Files :
        qcfg.Files[i].Filesystem = "root" /\ ~qcfg.Files[i].Append

\* C17: the helper succeeds exactly when every file is on the root
\* filesystem and is no append entry, and returns the empty config with its
\* error; on success every path and name of the input occurs exactly once in
\* the output, and the entry kept is the one with the highest index (a unit
\* but for its merged dropins, a user but for the keys appended to it).
C17_DedupContract ==
    qpc = "returned" =>
        /\ (qerr = NoError) <=> DedupAccepts
        /\ ~DedupAccepts => qres = ZeroLegacyConfig
        /\ DedupAccepts =>
            /\ qres.Version = qcfg.Version
            /\ OnceEach(qcfg.Files, qres.Files)
            /\ OnceEach(qcfg.Units, qres.Units)
            /\ OnceEach(qcfg.Users, qres.Users)
            /\ \A j \in DOMAIN qres.Files :
                 qres.Files[j] = Newest(qcfg.Files, qres.Files[j].Path)
            /\ \A j \in DOMAIN qres.Units :
                 [qres.Units[j] EXCEPT !.Dropins = <<>>]
                 = [Newest(qcfg.Units, qres.Units[j].Name) EXCEPT !.Dropins = <<>>]
            /\ \A j \in DOMAIN qres.Users :
                 /\ [qres.Users[j] EXCEPT !.SSHAuthorizedKeys = <<>>]
                    = [Newest(qcfg.Users, qres.Users[j].Name)
                         EXCEPT !.SSHAuthorizedKeys = <<>>]
                 /\ qres.Users[j].SSHAuthorizedKeys
                    = KeysDescending(qcfg.Users, qres.Users[j].Name,
                                     Len(qcfg.Users))

\* A successful call that dropped a file whose contents differ from the kept
\* one, a duplicate unit and a duplicate user.
C17_Witness ==
    /\ DedupSucceeded
    /\ \E i, j \in DOMAIN qcfg.Files :
          /\ i < j
          /\ qcfg.Files[i].Path = qcfg.Files[j].Path
          /\ qcfg.Files[i].Contents # qcfg.Files[j].Contents
    /\ Len(qres.Units) < Len(qcfg.Units)
    /\ Len(qres.Users) < Len(qcfg.Users)

\* The number of dropins of a name in a list.
DropinCount(list, name) ==
    Cardinality({ x \in DOMAIN list : list[x].Name = name })

\* The kept unit's own dropins are unchanged and come first.
OwnDropinsFirst(list, own) ==
    /\ Len(list) >= Len(own)
    /\ SubSeq(list, 1, Len(own)) = own

\* A dropin after the kept unit's own has a name no earlier dropin has.
AddedOnlyIfAbsent(list, own) ==
    \A x \in DOMAIN list :
        x > Len(own) => \A y \in 1..(x - 1) : list[y].Name # list[x].Name

\* The dropins of the units of a name, from index i down to the first.
RECURSIVE DropinsDescending(_, _, _)
DropinsDescending(units, name, i) ==
    IF i = 0 THEN <<>>
    ELSE (IF units[i].Name = name THEN units[i].Dropins ELSE <<>>)
         \o DropinsDescending(units, name, i - 1)

\* A dropin after the kept unit's own is the first of its name among the
\* dropins of the units of that name, going from the highest index down.
AddedIsNewest(list, own, all) ==
    \A x \in DOMAIN list :
        x > Len(own) =>
            \E a \in DOMAIN all :
                /\ all[a] = list[x]
                /\ \A b \in 1..(a - 1) : all[b].Name # list[x].Name

\* C18 as stated: when a duplicate unit is dropped, the kept unit's list has
\* exactly one dropin for every dropin name occurring in a unit of that name,
\* the kept unit's own dropins are unchanged and first, and an older dropin
\* is added only if the list has none of its name.
C18_ExactlyOneDropinPerName ==
    DedupSucceeded =>
        \A j \in DOMAIN qres.Units :
            LET name == qres.Units[j].Name
                list == qres.Units[j].Dropins
                own  == Newest(qcfg.Units, name).Dropins
                all  == DropinsDescending(qcfg.Units, name, Len(qcfg.Units))
            IN  Cardinality(Occurrences(qcfg.Units, name)) > 1 =>
                    /\ \A a \in DOMAIN all : DropinCount(list, all[a].Name) = 1
                    /\ OwnDropinsFirst(list, own)
                    /\ AddedOnlyIfAbsent(list, own)

\* C18, amended: when a duplicate unit is dropped, the kept unit's own
\* dropins are unchanged and come first; after them comes exactly one dropin
\* for every name that an older unit of that name has and the kept unit has
\* not, the first of that name from the highest index down. So every dropin
\* name occurs in the list, as often as in the kept unit's own list, or once.
C18_DropinsMerged ==
    DedupSucceeded =>
        \A j \in DOMAIN qres.Units :
            LET name == qres.Units[j].Name
                list == qres.Units[j].Dropins
                own  == Newest(qcfg.Units, name).Dropins
                all  == DropinsDescending(qcfg.Units, name, Len(qcfg.Units))
            IN  Cardinality(Occurrences(qcfg.Units, name)) > 1 =>
                    /\ \A a \in DOMAIN all :
                         DropinCount(list, all[a].Name)
                         = IF DropinCount(own, all[a].Name) = 0
                           THEN 1
                           ELSE DropinCount(own, all[a].Name)
                    /\ OwnDropinsFirst(list, own)
                    /\ AddedOnlyIfAbsent(list, own)
                    /\ AddedIsNewest(list, own, all)

\* A duplicate unit was dropped: one of its dropins was added to the kept
\* unit's list and another, whose name the kept unit has, was not.
C18_Witness ==
    /\ DedupSucceeded
    /\ \E j \in DOMAIN qres.Units :
          LET name == qres.Units[j].Name
              list == qres.Units[j].Dropins
              own  == Newest(qcfg.Units, name).Dropins
              all  == DropinsDescending(qcfg.Units, name, Len(qcfg.Units))
          IN  /\ Cardinality(Occurrences(qcfg.Units, name)) > 1
              /\ Len(own) > 0
              /\ Len(list) > Len(own)
              /\ \E a \in DOMAIN all : \A x \in DOMAIN list : list[x] # all[a]

(***************************************************************************)
(* Properties of Parse and ParseCompatibleVersion (SpecParse).             *)
(***************************************************************************)

\* The text of the schema's max version.
MaxVersionText == <<3, 4, 0, "experimental">>

ParseReturned == pfn = "Parse" /\ ppc = "returned"

CompatibleEnded ==
    /\ pfn = "ParseCompatibleVersion"
    /\ ppc \in {"returned", "panicked"}
    /\ Len(pcalls) > 1

Ran(callee) == \E i \in DOMAIN pcalls : pcalls[i] = callee

LegacyParseFailed ==
    /\ ppc = "returned"
    /\ perr = Wrap("unable to parse 2.x ignition", [kind |-> "LegacyParse"])

\* Nothing but the chain of the previous schemas, or Parse, was run.
OnlyChainOrParse ==
    \A i \in 2..Len(pcalls) :
        pcalls[i] \in {"Parse", "prev.ParseCompatibleVersion", "translate.Translate"}

ReturnsMaxVersion ==
    (ppc = "returned" /\ perr = NoError) => pres.Version = MaxVersionText

\* C20 as stated: the legacy translator is run if and only if the major
\* version is 2 (and the config parses as a 2.x config); for every other
\* version only the chain of the previous schemas, or Parse, is run; every
\* config returned without error has the max version.
C20_LegacyTranslatorIffMajor2 ==
    CompatibleEnded =>
        /\ Ran("v24tov31.Translate") => pver.Major = 2
        /\ pver.Major = 2 => (Ran("v24tov31.Translate") \/ LegacyParseFailed)
        /\ pver.Major # 2 => OnlyChainOrParse
        /\ ReturnsMaxVersion

\* C20, amended: ParseCompatibleVersion parses the config as a 2.x config if
\* and only if its major version is not 3, and runs the legacy translator if
\* and only if that parse succeeds; a config that was translated goes on to
\* the chain of the previous schemas; for major version 3 only the chain, or
\* Parse for the max version, is run; every config returned without error
\* has the max version.
C20_LegacyPathIffMajorNot3 ==
    CompatibleEnded =>
        /\ Ran("v2_4.Parse") <=> pver.Major # 3
        /\ Ran("v24tov31.Translate") <=> (pver.Major # 3 /\ ~LegacyParseFailed)
        /\ pver.Major = 3 => OnlyChainOrParse
        /\ Ran("Parse") <=> pver = MaxVersion
        /\ (Ran("v24tov31.Translate") /\ ppc = "returned" /\ perr = NoError)
              => pcalls = <<"GetConfigVersion", "v2_4.Parse", "v24tov31.Translate",
                            "prev.ParseCompatibleVersion", "translate.Translate">>
        /\ ReturnsMaxVersion

\* A config of version 2.4.0 was translated by the legacy translator and by
\* the chain, and is returned with the max version.
C20_Witness ==
    /\ CompatibleEnded
    /\ pver.Major = 2
    /\ Ran("v24tov31.Translate")
    /\ Ran("translate.Translate")
    /\ ppc = "returned"
    /\ perr = NoError
    /\ pres.Version = MaxVersionText

(***************************************************************************)
(* The translator on filesystems declared by path only (SpecTranslate).    *)
(***************************************************************************)

\* C29: on a legacy config that passes legacy validation, a filesystem
\* entry without a mount block included, Check2_4 and Translate end by
\* returning a result or an error; they never abort.
C29_NoAbortOnAbsentMount ==
    (tenv.legacy = "valid" /\ TranslateEnded) => tpc = "returned"

(***************************************************************************)
(* The helper followed by Check2_4 (SpecDedup).                            *)
(***************************************************************************)

\* C30: Check2_4 on the config that RemoveDuplicateFilesUnitsUsers returned
\* with success never fails because two files have the same path, and never
\* fails with DuplicateUnitError.
C30_NoDuplicateLeftForCheck ==
    qpc = "checked" =>
        /\ ~(/\ qchk.err.kind = "DuplicateInodeError"
             /\ qchk.err.Old[1] = "File: "
             /\ qchk.err.New[1] = "File: ")
        /\ qchk.err.kind # "DuplicateUnitError"

(***************************************************************************)
(* The worker pool and the device wait of createFilesystems (SpecDisks).   *)
(***************************************************************************)

\* The workers inside a createFilesystem call, and those that hold element
\* i of fss: in a call for it, or with its result not yet received.
InProgress == { w \in DOMAIN wk : wk[w].pc = "create" }

Holders(i) == { w \in DOMAIN wk : wk[w].pc \in {"create", "send"} /\ wk[w].item = i }

Queued(i) == Cardinality({ k \in DOMAIN work : work[k] = i })

\* The entries of the config that have a mount block.
MountEntries == { i \in DOMAIN dcfg.Filesystems : dcfg.Filesystems[i].Mount # <<>> }

\* C22: at most GOMAXPROCS createFilesystem calls are in progress at any
\* moment; fss has one element per filesystem entry with a mount block; an
\* element that was sent is in one place only, the work channel, a worker's
\* call, or among the processed, so that no element is dropped, held by two
\* workers or processed twice; and when the pool returns every element was
\* processed exactly once.
C22_BoundedPoolEachEntryOnce ==
    /\ Cardinality(InProgress) <= concurrency
    /\ Cardinality(DOMAIN ncalls) = Cardinality(MountEntries)
    /\ \A i \in DOMAIN ncalls :
          /\ ncalls[i] <= 1
          /\ Cardinality(Holders(i)) <= 1
          /\ (ncalls[i] = 1) <=> (dres[i] # "pending")
          /\ wk # <<>> =>
                Queued(i) + Cardinality(Holders(i) \cap InProgress) + ncalls[i]
                = IF i < sendNext THEN 1 ELSE 0
    /\ PoolReturned => \A i \in DOMAIN ncalls : ncalls[i] = 1

\* Two workers have processed three entries, and the implicit root of the
\* config, which has no mount block, was handed to none.
C22_Witness ==
    /\ PoolReturned
    /\ concurrency = 2
    /\ Len(fss) = 3
    /\ Len(dcfg.Filesystems) = 4
    /\ \A i \in DOMAIN ncalls : ncalls[i] = 1

\* Some device has been probed, formatted or cleaned.
DeviceTouched == \E d \in DOMAIN ddisk : ddisk[d].ops # <<>>

WaitSucceeded == \E i \in Steps("waitOnDevices") : dsteps[i].err = NoErr

\* C25: an alias is created only after the wait for the devices has
\* succeeded; a worker exists, and a device is touched, only after an alias
\* was created for every element of fss; and when the wait or the creation
\* of an alias fails, the step returns that error and no device has been
\* probed, formatted or cleaned.
C25_WaitThenAliasesThenWorkers ==
    /\ \A i \in Steps("CreateDeviceAlias") :
          \E j \in Steps("waitOnDevices") : j < i /\ dsteps[j].err = NoErr
    /\ (wk # <<>> \/ DeviceTouched) =>
          /\ WaitSucceeded
          /\ Cardinality(Steps("CreateDeviceAlias")) = Len(fss)
          /\ \A i \in DOMAIN fss : fss[i].Device \in aliases
    /\ \A d \in DOMAIN ddisk : ddisk[d].ops # <<>> => d \in aliases
    /\ (/\ dpc = "returned"
        /\ Steps("createFilesystems") # {}
        /\ Len(fss) > 0
        /\ Cardinality(Steps("CreateDeviceAlias")) < Len(fss))
          => /\ ~DeviceTouched
             /\ wk = <<>>
             /\ FilesystemsError # NoErr
             /\ derr = Errorf("failed to create filesystems: ", FilesystemsError)
             /\ FilesystemsError[1] \in {"failed to wait on filesystems devs: ",
                                         "failed to create device alias: "}

\* The second alias could not be created: the step has returned that error
\* and no worker was started.
C25_Witness ==
    /\ dpc = "returned"
    /\ WaitSucceeded
    /\ Cardinality(Steps("CreateDeviceAlias")) = 1
    /\ Len(fss) > 1
    /\ FilesystemsError[1] = "failed to create device alias: "
    /\ ~DeviceTouched
    /\ wk = <<>>

AllWorkersExited == \A w \in DOMAIN wk : wk[w].pc = "exited"

\* A worker that is blocked for good: it has a result that nobody will
\* receive, or it waits for work on a channel that is open.
LeftBlocked(w) ==
    \/ wk[w].pc \in {"send", "create"}
    \/ wk[w].pc = "recv" /\ ~(closed /\ work = <<>>)

\* The original statement of C26 about the moment of return: when
\* createFilesystems returns from its pool, every worker has exited.
C26_AllExitedAtReturn == PoolReturned => AllWorkersExited

\* What holds in every state of the pool: the producer is never blocked on
\* the work channel, the collector has received at most one result per
\* element, and all of them when it returns; at the return no worker is
\* left blocked.
PoolSafe ==
    /\ (dpc = "produce" /\ sendNext <= Len(fss)) => ENABLED SendWork
    /\ nrecv <= Len(fss)
    /\ nrecv = Cardinality({ i \in DOMAIN ncalls : ncalls[i] = 1 })
              - Cardinality({ w \in DOMAIN wk : wk[w].pc = "send" })
    /\ PoolReturned =>
          /\ nrecv = Len(fss)
          /\ Len(errs) = Cardinality(FailingEntries)
          /\ \A w \in DOMAIN wk : ~LeftBlocked(w)

\* C26: under a fair scheduler createFilesystems returns, for every number
\* of entries and of workers within the bounds; the producer never blocks
\* and the collector receives exactly one result per element of fss; when it
\* returns no worker is blocked on a send or on an open channel, and every
\* worker exits afterwards.
C26_PoolTerminates ==
    /\ []PoolSafe
    /\ <>(dpc = "returned")
    /\ (PoolReturned ~> AllWorkersExited)

\* The pool of two workers has returned after three entries and both workers
\* have left their loop.
C26_Witness ==
    /\ PoolReturned
    /\ AllWorkersExited
    /\ concurrency = 2
    /\ Len(fss) = 3
    /\ nrecv = 3

\* The clean-except procedure has acted on the device of the entry: every
\* call of it that gets past its patterns creates the scratch directory.
CleanExceptRun == FsOps({"TempDir", "Mount", "RemoveAll", "Unmount", "Remove"}) # {}

\* C23: createFilesystem runs clean-except only when the probe succeeded,
\* wipeFilesystem is false, the legacy create block is absent, the probed
\* values are accepted (the skip path) and cleanExcept is non-empty; it never
\* runs both mkfs and clean-except; and with wipeFilesystem true or a create
\* block it never runs clean-except.
C23_CleanExceptOnlyOnSkipPath ==
    fpc = "returned" =>
        /\ CleanExceptRun =>
              /\ fenv.probeFails = 0
              /\ ~ffs.WipeFilesystem
              /\ ffs.Create = <<>>
              /\ ProbedMatchesConfig
              /\ ffs.CleanExcept # <<>>
        /\ ~(MkfsRun /\ CleanExceptRun)
        /\ (ffs.WipeFilesystem \/ ffs.Create # <<>>) => ~CleanExceptRun

\* An accepted filesystem was cleaned: an entry outside the kept path is
\* gone, and no mkfs was run.
C23_Witness ==
    /\ fpc = "returned"
    /\ ferr = Nil
    /\ ffs.CleanExcept # <<>>
    /\ CleanExceptRun
    /\ FsOps({"RemoveAll"}) # {}
    /\ fsys.tree # fdev0.tree
    /\ ~MkfsRun

(***************************************************************************)
(* The patterns of cleanFilesystemExcept and its mount (SpecClean).        *)
(***************************************************************************)

\* The positions of cleanExcept that hold "" or "/", and those whose pattern,
\* or a parent pattern derived from it, does not compile.
TopDirectoryAt == { k \in DOMAIN cfs.CleanExcept : cfs.CleanExcept[k] \in {<<>>, <<"/">>} }

NotCompilingAt ==
    { k \in DOMAIN cfs.CleanExcept \ TopDirectoryAt :
        LET pathRegex == TrimSuffix(cfs.CleanExcept[k], <<"/">>)
            parts == Split(pathRegex)
            pps == ParentRegexes(parts, Len(parts) - 1)
        IN ~Compiles(pathRegex) \/ \E j \in DOMAIN pps : ~Compiles(pps[j]) }

\* Nothing was done to the system: no mountpoint, no mount, no removal.
NothingDone == csys = FreshSys(ctree0)

\* The original statement of C24: a list that contains "" or "/" returns
\* success, and a list with a pattern that does not compile returns an
\* error, both with nothing done.
C24_EitherKindDecidesAsStated ==
    cpc = "returned" =>
        /\ TopDirectoryAt # {} => (cerr = Nil /\ NothingDone)
        /\ NotCompilingAt # {} => (cerr # Nil /\ NothingDone)

\* C24 (amended): the mountpoint is created and the device mounted only
\* after every pattern was processed.  When the list holds "" or "/" or a
\* pattern that does not compile, the first such position in list order
\* decides: "" or "/" gives success, a pattern that does not compile gives
\* the compile error, and in both cases there is no mountpoint, no mount and
\* no removal.  Otherwise the mountpoint is created first, then the device
\* is mounted, and removals come after the mount.
C24_PatternsBeforeMount ==
    cpc = "returned" =>
        LET deciding == TopDirectoryAt \cup NotCompilingAt
        IN IF deciding # {}
           THEN LET k == CHOOSE x \in deciding : \A y \in deciding : x <= y
                IN /\ NothingDone
                   /\ k \in TopDirectoryAt => cerr = Nil
                   /\ k \in NotCompilingAt =>
                         cerr \in {"regexp: error parsing", "split regex not valid"}
           ELSE /\ cenv.tempDirFails =>
                      (NothingDone /\ cerr = "failed to create temp directory")
                /\ ~cenv.tempDirFails =>
                      /\ OpsOf("TempDir") = {1}
                      /\ OpsOf("Mount") = {2}
                      /\ \A i \in OpsOf("RemoveAll") : i > 2 /\ ~cenv.mountFails

\* A list whose first pattern does not compile and whose second is "/"
\* returned the compile error.
C24_Witness ==
    /\ cpc = "returned"
    /\ Len(cfs.CleanExcept) = 2
    /\ 1 \in NotCompilingAt
    /\ 2 \in TopDirectoryAt
    /\ cerr = "regexp: error parsing"
    /\ NothingDone
    /\ ctree0 # {}

(***************************************************************************)
(* Properties of HashParts and Validate (SpecHash).                        *)
(***************************************************************************)

HasDash(s) == \E i \in DOMAIN s : s[i] = "-"

\* C21: HashParts returns ErrHashMalformed exactly when the string has no
\* "-", and otherwise an algorithm without "-" and a sum with
\* algo + "-" + sum equal to the string; Validate reports ErrHashMalformed
\* for the former, ErrHashUnrecognized for an algorithm other than sha256
\* and sha512, ErrHashWrongSize for a sum that is not of 64 (sha256) or 128
\* (sha512) characters, and nothing otherwise.
C21_HashPartsAndValidate ==
    /\ hpc \in {"parts", "validated"} =>
          IF HasDash(hin)
          THEN /\ hparts.err = Nil
               /\ hparts.algo \o <<"-">> \o hparts.sum = hin
               /\ ~HasDash(hparts.algo)
          ELSE hparts.err = "ErrHashMalformed"
    /\ hpc = "validated" =>
          hverr = IF ~HasDash(hin) THEN "ErrHashMalformed"
                  ELSE IF hparts.algo = Sha256
                       THEN (IF Len(hparts.sum) = 64 THEN Nil ELSE "ErrHashWrongSize")
                  ELSE IF hparts.algo = Sha512
                       THEN (IF Len(hparts.sum) = 128 THEN Nil ELSE "ErrHashWrongSize")
                  ELSE "ErrHashUnrecognized"

\* A sha512 hash of 128 hex characters was split and accepted.
C21_Witness ==
    /\ hpc = "validated"
    /\ hparts.algo = Sha512
    /\ Len(hparts.sum) = 128
    /\ hparts.err = Nil
    /\ hverr = Nil

(***************************************************************************)
(* Properties of ibmcloud.FetchConfig (SpecFetch).                         *)
(***************************************************************************)

\* C27: FetchConfig gets past its wait only when the context is done; the
\* context is cancelled only after a read that succeeded and wrote data; a
\* read that failed before the deadline leaves FetchConfig waiting; after a
\* cancel the bytes read are parsed, and after the deadline empty data is.
C27_ReturnsAtFirstEvent ==
    /\ ipc \in {"parse", "returned"} => ictx # "nil"
    /\ ictx = "Canceled" => (igo = "done" /\ isrc.err = Nil /\ idata = isrc.raw)
    /\ (igo = "failed" /\ ictx = "nil") => ipc = "wait"
    /\ (ipc = "returned" /\ ictx = "Canceled") => iparsed = <<isrc.raw>>
    /\ (ipc = "returned" /\ ictx = "DeadlineExceeded") => iparsed = <<"">>

\* FetchConfig returns whatever the read of the config drive does.
FetchConfigReturns == <>(ipc = "returned")

\* C28: once FetchConfig has read data, dispatch is not about to write it,
\* and what FetchConfig read is what data holds when dispatch is over.
C28_ReadOrderedWithWrite ==
    ipc = "returned" =>
        /\ igo # "write"
        /\ igo \in {"done", "failed"} => iparsed = <<idata>>

====
